---- MODULE Spec2Model ----
(***************************************************************************)
(* Model of the interactive session layer of kiosk-cli.                    *)
(*                                                                         *)
(* Part 1: claude.RunWithPTY (internal/claude/pty.go): the main goroutine, *)
(* the process-wait goroutine, the output relay, the input relay, the      *)
(* detach protocol and the child process with its PTY as environment.      *)
(*                                                                         *)
(* Part 2: sessions.Store (internal/sessions): the in-memory mapping, the  *)
(* sessions file and goroutines calling Get, GetOrCreate, Set and Delete.  *)
(***************************************************************************)
EXTENDS Integers, Sequences, FiniteSets, TLC

\* ---------------------------------------------------------------- bounds
\* longest input stream offered on Stdin
MaxLen == 2
\* bytes the child writes to its terminal during a run
MaxOut == 1

\* goroutines calling into one Store
NumProcs == 2
\* distinct ids the entropy source can produce
NumUUIDs == 2
\* calls a test program makes on a Store before the file is loaded again
MaxCalls == 2
\* symbols in a value of the --sandbox flag
MaxSyms == 4
\* length of a list given to transformSandboxValues
MaxVals == 4
\* calls made on a second Store
MaxOtherCalls == 1
\* prefetches started, and calls of Cache.Reset and of GetBrowseApps
MaxFetches == 2
MaxResets == 2
MaxGets == 2
\* calls of BrowseModel.Init, and list length up to which more pages are fetched
MaxInits == 2
MaxApps == 2

\* ------------------------------------------------------ program constants
DefaultDetachKey == 11
\* 50 * time.Millisecond and 3 * time.Second, in milliseconds
DefaultInterruptDelay == 50
DefaultInterruptTimeout == 3000
ReadBufSize == 4096
WaitErrCap == 1
InputErrCap == 1
\* b := make([]byte, 16), and the largest value of a byte
UUIDBytes == 16
MaxByte == 255

\* byte values used in input streams: NUL, ctrl+k, 'a'
Bytes == {0, 11, 97}
\* values of SessionOptions.DetachKey that callers pass
DetachKeyOpts == {0, 97}

\* values of opts.InterruptDelay and opts.InterruptTimeout, in milliseconds
DurationOpts == {0, 20}
\* kinds of SessionIO: <<Stdin has Fd(), Stdout is an *os.File, mode of Stdin>>
IOConfigs == {<<FALSE, FALSE, "cooked">>, <<TRUE, TRUE, "cooked">>,
              <<TRUE, FALSE, "raw">>, <<FALSE, TRUE, "cooked">>}

VARIABLES
    pc,            \* position of the main goroutine in RunWithPTY / detach
    result,        \* the error RunWithPTY returns ("none" until a return)
    resolved,      \* what resolved the run
    defers,        \* stack of deferred calls, top is the head
    err,           \* err received by the select of the main loop
    optDetachKey,  \* opts.DetachKey
    stdinHasFd,    \* ioCfg.Stdin implements Fd()
    stdoutIsFile,  \* ioCfg.Stdout is an *os.File
    child,         \* "notstarted" | "running" | "exited"
    exitStatus,    \* exit status of the child: 0, 1 or "killed"
    ptmxOpen,      \* the PTY master descriptor is open
    ptyBuf,        \* bytes written by the child, not yet read from ptmx
    written,       \* bytes the child has written so far
    delivered,     \* bytes the output relay copied to Stdout
    waitPc,        \* process-wait goroutine: "idle" | "waiting" | "send" | "done"
    waitVal,       \* value cmd.Wait() returned
    waitErr,       \* channel waitErr (capacity 1)
    outPc,         \* output relay: "idle" | "copying" | "eof" | "done"
    outputDone,    \* channel outputDone is closed
    initMode,      \* mode of the input terminal before the call
    termMode,      \* mode of the input terminal: "cooked" | "raw"
    oldState,      \* state term.MakeRaw saved for the restore
    enterCalls,    \* successful term.MakeRaw calls
    restoreCalls,  \* term.Restore calls
    subscribed,    \* resizeCh is registered with signal.Notify
    resizeChOpen,  \* "none" | "open" | "closed"
    resizeCh,      \* notifications buffered in resizeCh (capacity 1)
    resizePc,      \* resize goroutine: "idle" | "ranging" | "done"
    sentOnClosed,  \* a notification was sent on resizeCh after its close
    crCanceled,    \* cr.Cancel() has been called
    input,         \* the byte stream on Stdin
    inPos,         \* bytes consumed from Stdin so far
    inPc,          \* input relay: "idle" | "read" | "loop" | "done"
    buf,           \* buf[0:n] of the current chunk
    bufIdx,        \* loop index i (1-based)
    readErr,       \* err returned by the last cr.Read
    forwarded,     \* bytes written to ptmx, in order
    inputErr,      \* channel inputErr (capacity 1)
    detachCount,   \* times the relay raised the detach signal
    intCalls,      \* sendInterrupt calls
    killCalls,     \* cmd.Process.Kill calls
    timerFired,    \* the time.After(timeout) timer of detach has fired
    exitedFirst,   \* the child had already exited when that timer fired
    detachCase,    \* select case detach took: "none" | "wait" | "timeout"
    eventLog,      \* detach protocol events, in order
    sleepArg,      \* durations passed to time.Sleep by sendInterrupts
    afterArg,      \* durations passed to time.After by detach
    sessions,      \* Store.sessions: app key -> id (NoId: no entry)
    disk,          \* the sessions file: its kind and the mapping it holds
    mu,            \* Store.mu: the goroutine holding it, 0 if unlocked
    spc,           \* position of each goroutine in its Store call
    op,            \* the call each goroutine is making: name, key, id
    newId,         \* local id of GetOrCreate
    ret,           \* values the call returns: id, ok/created, err
    pre,           \* Store.sessions as it was when the call took the lock
    wr,            \* completed writes of the sessions file during the call
    todo,          \* calls each goroutine of a test program still has to make
    log,           \* calls each goroutine of a test program has returned from
    loaded,        \* what a later call of Load() returned
    rnd,           \* the 16 bytes rand.Read puts into b
    uuidOut,       \* what newUUID returned
    execErr,       \* what sessionExec.Run returned
    exitMsg,       \* tea.Msg made by the callback of runAppSessionCmd
    sbInput,       \* value of the --sandbox flag
    sbParsed,      \* what parseSandboxValues returned
    sbList,        \* argument of transformSandboxValues
    sbResult,      \* what transformSandboxValues returned
    settingsFile,  \* <appPath>/.claude/settings.json
    settingsPre,   \* that file as it was when writeSandboxSettings was called
    sandboxValues, \* argument of writeSandboxSettings
    wsRet,         \* how writeSandboxSettings ended
    optInterruptDelay,   \* opts.InterruptDelay, in milliseconds
    optInterruptTimeout, \* opts.InterruptTimeout, in milliseconds
    sessionsNil,   \* Store.sessions is the nil map
    other,         \* a second Store, loaded from the same sessions file
    otherLog,      \* calls that have returned on the second Store
    cache,         \* prefetch.Cache: browseApps, browseNextCursor, browseAppsErr, browseLoaded
    cacheMu,       \* Cache.mu: who holds the write lock, <<>> if nobody
    fetches,       \* the goroutines running fetchBrowseApps
    resetPc,       \* position of the caller of Cache.Reset
    resets,        \* calls of Cache.Reset that have returned
    got,           \* what the calls of GetBrowseApps returned, in order
    browse,        \* the BrowseModel
    inflight,      \* commands of the browse view that have not delivered their message
    inits,         \* calls of BrowseModel.Init so far
    ignored        \* page messages that Update returned on without a change

mainVars  == <<pc, result, resolved, defers, err>>
optVars   == <<optDetachKey, stdinHasFd, stdoutIsFile, input, initMode>>
childVars == <<child, exitStatus, ptyBuf, written>>
waitVars  == <<waitPc, waitVal, waitErr>>
outVars   == <<outPc, outputDone, delivered>>
termVars  == <<termMode, oldState, enterCalls, restoreCalls>>
sizeVars  == <<subscribed, resizeChOpen, resizeCh, resizePc, sentOnClosed>>
inVars    == <<inPos, inPc, buf, bufIdx, readErr, forwarded, inputErr, detachCount>>
detVars   == <<intCalls, killCalls, timerFired, exitedFirst, detachCase, eventLog,
               sleepArg, afterArg>>

storeVars == <<sessions, disk, mu, spc, op, newId, ret, pre, wr>>

\* the program that calls the Store, and a Load() of the file it wrote
harnessVars == <<todo, log, loaded>>

\* arguments and results of the functions looked at on their own
pureVars == <<rnd, uuidOut, sbInput, sbParsed, sbList, sbResult>>

\* the caller of RunWithPTY
callerVars == <<execErr, exitMsg>>

\* writeSandboxSettings and its file
settingsVars == <<settingsFile, settingsPre, sandboxValues, wsRet>>

\* the parts of the program that neither RunWithPTY nor the Store touches
\* the durations among the session options
durationVars == <<optInterruptDelay, optInterruptTimeout>>

\* the map of the Store being nil, and a second Store on the same file
store2Vars == <<sessionsNil, other, otherLog>>

\* the prefetch cache
cacheVars == <<cache, cacheMu, fetches, resetPc, resets, got>>

\* the browse view
browseVars == <<browse, inflight, inits, ignored>>

extraVars == <<settingsVars, durationVars, store2Vars, cacheVars, browseVars>>

\* what no step of RunWithPTY changes: its arguments, the session store and
\* the rest of the program
ptyFixed == <<optVars, storeVars, harnessVars, pureVars, callerVars, extraVars>>

ptyVars == <<mainVars, optVars, childVars, waitVars, outVars, termVars, sizeVars,
             inVars, detVars, ptmxOpen, crCanceled>>

\* what no Store method changes
storeFixed == <<ptyVars, harnessVars, pureVars, callerVars, extraVars>>

\* what writeSandboxSettings does not change
settingsFixed == <<ptyVars, storeVars, harnessVars, pureVars, callerVars,
                   durationVars, store2Vars, cacheVars, browseVars>>

\* what no call on the second Store changes
otherFixed == <<ptyVars, harnessVars, pureVars, callerVars, settingsVars,
                durationVars, cacheVars, browseVars>>

\* what the prefetch cache and the browse view do not change
tuiFixed == <<ptyVars, storeVars, harnessVars, pureVars, callerVars,
              settingsVars, durationVars, store2Vars>>

vars == <<ptyVars, storeVars, harnessVars, pureVars, callerVars, extraVars>>

\* ---------------------------------------------------------------- helpers
SeqsUpTo(S, n) == UNION {[1..k -> S] : k \in 0..n}

Min(a, b) == IF a < b THEN a ELSE b

IsPrefix(s, t) == Len(s) <= Len(t) /\ SubSeq(t, 1, Len(s)) = s

\* detachKey that takes the option as it is
detachKey_AsGiven ==
    optDetachKey

\* detachKey := opts.DetachKey; if detachKey == 0 { detachKey = DefaultDetachKey }
detachKey ==
    IF optDetachKey = 0 THEN DefaultDetachKey ELSE optDetachKey

\* interruptDelay := opts.InterruptDelay, DefaultInterruptDelay if that is 0
interruptDelay ==
    IF optInterruptDelay = 0 THEN DefaultInterruptDelay ELSE optInterruptDelay

\* interruptTimeout := opts.InterruptTimeout, DefaultInterruptTimeout if 0
interruptTimeout ==
    IF optInterruptTimeout = 0 THEN DefaultInterruptTimeout ELSE optInterruptTimeout

\* return err: record the result and start running the deferred calls
Return(e, why) ==
    /\ result' = e
    /\ resolved' = why
    /\ pc' = "defer"

PtyInit ==
    /\ pc = "start"
    /\ result = "none"
    /\ resolved = "none"
    /\ defers = <<>>
    /\ err = "none"
    /\ optDetachKey \in DetachKeyOpts
    /\ \E io \in IOConfigs :
         /\ stdinHasFd = io[1]
         /\ stdoutIsFile = io[2]
         /\ initMode = io[3]
    /\ child = "notstarted"
    /\ exitStatus = 0
    /\ ptmxOpen = FALSE
    /\ ptyBuf = 0
    /\ written = 0
    /\ delivered = 0
    /\ waitPc = "idle"
    /\ waitVal = "none"
    /\ waitErr = <<>>
    /\ outPc = "idle"
    /\ outputDone = FALSE
    /\ termMode = initMode
    /\ oldState = "none"
    /\ enterCalls = 0
    /\ restoreCalls = 0
    /\ subscribed = FALSE
    /\ resizeChOpen = "none"
    /\ resizeCh = 0
    /\ resizePc = "idle"
    /\ sentOnClosed = FALSE
    /\ crCanceled = FALSE
    /\ input \in SeqsUpTo(Bytes, MaxLen)
    /\ inPos = 0
    /\ inPc = "idle"
    /\ buf = <<>>
    /\ bufIdx = 1
    /\ readErr = "nil"
    /\ forwarded = <<>>
    /\ inputErr = <<>>
    /\ detachCount = 0
    /\ intCalls = 0
    /\ killCalls = 0
    /\ timerFired = FALSE
    /\ exitedFirst = FALSE
    /\ detachCase = "none"
    /\ eventLog = <<>>
    /\ sleepArg = <<>>
    /\ afterArg = <<>>

\* --------------------------------------------------- session store: state
\* goroutines that call into the Store
Procs == 1..NumProcs
\* app keys ("<org>/<repo>")
Keys == {"anthropic/starter", "acme/tool"}
\* ids that newUUID can return
UUIDs == 1..NumUUIDs
\* no entry for a key
NoId == 0
\* contents of a map[string]string: every key has an id or no entry
Mappings == [Keys -> UUIDs \cup {NoId}]
\* make(map[string]string)
EmptyMap == [k \in Keys |-> NoId]

\* the app keys in the order json.MarshalIndent writes the keys of a map
\* (sorted as strings)
KeyOrder == <<"acme/tool", "anthropic/starter">>

\* json.MarshalIndent(s.sessions, "", "  "): the members of the JSON object,
\* one <<key, id>> for every entry of the map, in key order
MarshalIndent(m) ==
    LET present == SelectSeq(KeyOrder, LAMBDA k : m[k] # NoId)
    IN  [i \in 1..Len(present) |-> <<present[i], m[present[i]]>>]

\* a json.Unmarshal that stops after the first member of the object
Unmarshal_FirstOnly(data, into) ==
    IF data = <<>>
      THEN into
      ELSE [into EXCEPT ![data[1][1]] = data[1][2]]

\* json.Unmarshal(data, &sessions) of a JSON object: each member is stored
\* into the map in the order it is read, a later member replacing an earlier
\* one of the same key
Unmarshal(data, into) ==
    [k \in Keys |->
        LET at == {i \in 1..Len(data) : data[i][1] = k}
        IN  IF at = {}
              THEN into[k]
              ELSE data[CHOOSE i \in at : \A j \in at : j <= i][2]]

\* states of the sessions file: missing; there but os.ReadFile fails; bytes
\* that are not JSON; JSON that is not an object of strings; the JSON value
\* null; a JSON object
NoFile == [kind |-> "absent", data |-> <<>>]
UnreadableFile == [kind |-> "unreadable", data |-> <<>>]
CorruptFile == [kind |-> "corrupt", data |-> <<>>]
NotObjectFile == [kind |-> "notobject", data |-> <<>>]
NullFile == [kind |-> "null", data |-> <<>>]
FileOf(m) == [kind |-> "file", data |-> MarshalIndent(m)]

\* what Load() returns
NoLoad == [kind |-> "none", map |-> EmptyMap, nilmap |-> FALSE, err |-> "none"]
LoadedStore(m, isNil) ==
    [kind |-> "store", map |-> m, nilmap |-> isNil, err |-> "nil"]
LoadError(e) == [kind |-> "error", map |-> EmptyMap, nilmap |-> FALSE, err |-> e]

\* a Load() for which a missing file is a read error like any other
LoadOf_MissingIsError(f) ==
    CASE f.kind \in {"absent", "unreadable"} -> LoadError("read sessions")
      [] f.kind \in {"corrupt", "notobject"} -> LoadError("parse sessions")
      [] f.kind = "null" -> LoadedStore(EmptyMap, TRUE)
      [] f.kind = "file" -> LoadedStore(Unmarshal(f.data, EmptyMap), FALSE)

\* Load() on the sessions file f
LoadOf(f) ==
    CASE f.kind = "absent" -> LoadedStore(EmptyMap, FALSE)
      [] f.kind = "unreadable" -> LoadError("read sessions")
      [] f.kind \in {"corrupt", "notobject"} -> LoadError("parse sessions")
      [] f.kind = "null" -> LoadedStore(EmptyMap, TRUE)
      [] f.kind = "file" -> LoadedStore(Unmarshal(f.data, EmptyMap), FALSE)

NoOp == [name |-> "none", key |-> "none", id |-> NoId]
NoRet == [id |-> NoId, ok |-> FALSE, err |-> "none"]

\* no goroutine is inside a Store call
ProcsIdle ==
    /\ mu = 0
    /\ spc = [p \in Procs |-> "idle"]
    /\ op = [p \in Procs |-> NoOp]
    /\ newId = [p \in Procs |-> NoId]
    /\ ret = [p \in Procs |-> NoRet]
    /\ pre = [p \in Procs |-> EmptyMap]
    /\ wr = [p \in Procs |-> 0]

\* the Store while RunWithPTY is looked at on its own: empty, no file
StoreIdle ==
    /\ sessions = EmptyMap
    /\ disk = NoFile
    /\ ProcsIdle

\* Load(): a missing file gives an empty Store, a file that parses gives its
\* mapping
StoreInit ==
    /\ disk \in {NoFile} \cup {FileOf(m) : m \in Mappings}
    /\ sessions = LoadOf(disk).map
    /\ ProcsIdle

\* no test program drives the Store, Load() is not called again
HarnessIdle ==
    /\ todo = [p \in Procs |-> <<>>]
    /\ log = [p \in Procs |-> <<>>]
    /\ loaded = NoLoad

\* newUUID is not looked at on its own
NoUUID == [id |-> <<>>, err |-> "none"]
UUIDIdle ==
    /\ rnd = <<>>
    /\ uuidOut = NoUUID

\* the --sandbox flag is not looked at
NoValues == [values |-> <<>>, err |-> "none"]
SandboxIdle ==
    /\ sbInput = <<>>
    /\ sbParsed = NoValues
    /\ sbList = <<>>
    /\ sbResult = NoValues

\* no function is looked at on its own
PureIdle == UUIDIdle /\ SandboxIdle

\* the callback of runAppSessionCmd has not made a message
NoMsg == [type |-> "none", text |-> "", err |-> "none"]

\* RunWithPTY was not called through the session view
CallerIdle ==
    /\ execErr = "none"
    /\ exitMsg = NoMsg

\* ------------------------------------------- .claude/settings.json: state
\* top-level keys of settings.json other than "sandbox"
OtherKeys == {"otherSetting", "model"}

\* JSON values a key can hold: no value (the key is absent), a string, a
\* number that float64 holds exactly and one that it does not
NoValue == [type |-> "absent", val |-> ""]

JSONValues ==
    {NoValue,
     [type |-> "string", val |-> "preserved"],
     [type |-> "number", val |-> "42"],
     [type |-> "number", val |-> "9007199254740993"]}

\* the "sandbox" key: absent, or an object
NoSandbox ==
    [present |-> FALSE, enabled |-> FALSE, hasDirs |-> FALSE, dirs |-> <<>>,
     hasDomains |-> FALSE, domains |-> <<>>]

OldSandbox ==
    [present |-> TRUE, enabled |-> FALSE, hasDirs |-> TRUE,
     dirs |-> <<"/old/a", "/old/b">>, hasDomains |-> FALSE, domains |-> <<>>]

\* settings := make(map[string]interface{})
EmptySettings == [keys |-> [k \in OtherKeys |-> NoValue], sandbox |-> NoSandbox]

SettingsObjects ==
    [keys : [OtherKeys -> JSONValues], sandbox : {NoSandbox, OldSandbox}]

\* the file: absent; present but not readable by this process; not JSON;
\* the JSON value null; a JSON object
AbsentSettings == [kind |-> "absent", obj |-> EmptySettings]

SettingsFiles ==
    {AbsentSettings,
     [kind |-> "corrupt", obj |-> EmptySettings],
     [kind |-> "null", obj |-> EmptySettings]}
    \cup [kind : {"object", "unreadable"}, obj : SettingsObjects]

\* writeSandboxSettings was not called
SettingsIdle ==
    /\ settingsFile = AbsentSettings
    /\ settingsPre = AbsentSettings
    /\ sandboxValues = <<>>
    /\ wsRet = "none"

\* the session options leave the durations at zero
DurationsZero ==
    /\ optInterruptDelay = 0
    /\ optInterruptTimeout = 0

\* the second Store before its Load()
NoOther == [loaded |-> FALSE, sessions |-> EmptyMap]

\* there is one Store, and its map is not nil
OneStore ==
    /\ sessionsNil = FALSE
    /\ other = NoOther
    /\ otherLog = <<>>

\* ------------------------------------- prefetch cache and browse view: state
\* cursors of ListAppsPaginated; "nil" is the nil pointer (no more pages)
Cursors == {"nil", "c1"}

\* errors of config.Load and of the API client; "nil" is no error
FetchErrors == {"cfgErr", "apiErr"}

\* var globalCache = &Cache{}
EmptyCache ==
    [browseApps |-> <<>>, browseNextCursor |-> "nil", browseAppsErr |-> "nil",
     browseLoaded |-> FALSE]

\* a goroutine of fetchBrowseApps that was not started
NoFetch == [pc |-> "idle", apps |-> <<>>, next |-> "nil", err |-> "nil", epoch |-> 0]

\* nothing was prefetched and nobody uses the cache
CacheIdle ==
    /\ cache = EmptyCache
    /\ cacheMu = <<>>
    /\ fetches = [f \in 1..MaxFetches |-> NoFetch]
    /\ resetPc = "idle"
    /\ resets = 0
    /\ got = <<>>

\* NewBrowseModel()
NewBrowseModel ==
    [loading |-> TRUE, err |-> "nil", apps |-> <<>>, nextCursor |-> "nil",
     loadingMore |-> FALSE, fetchGeneration |-> 0]

\* the browse view was created and not shown
BrowseIdle ==
    /\ browse = NewBrowseModel
    /\ inflight = {}
    /\ inits = 0
    /\ ignored = 0

TuiIdle == CacheIdle /\ BrowseIdle

ExtraIdle == SettingsIdle /\ DurationsZero /\ OneStore /\ TuiIdle

Init == PtyInit /\ StoreIdle /\ HarnessIdle /\ PureIdle /\ CallerIdle /\ ExtraIdle

\* ------------------------------------------------- main goroutine: set-up
\* PtyStart that starts the process-wait goroutine before it looks at err
PtyStart_WaitBeforeCheck ==
    /\ pc = "start"
    /\ \/ /\ result' = "StartErr"
          /\ resolved' = "startErr"
          /\ pc' = "returned"
          /\ waitPc' = "waiting"
          /\ UNCHANGED <<defers, child, ptmxOpen>>
       \/ /\ child' = "running"
          /\ ptmxOpen' = TRUE
          /\ defers' = <<"ptmxClose">> \o defers
          /\ pc' = "goWait"
          /\ UNCHANGED <<result, resolved, waitPc>>
    /\ UNCHANGED <<err, ptyFixed, exitStatus, ptyBuf, written, waitVal, waitErr,
                   outVars, termVars, sizeVars, inVars, detVars, crCanceled>>

\* ptmx, err := pty.Start(cmd); if err != nil { return err }; defer ptmx.Close()
PtyStart ==
    /\ pc = "start"
    /\ \/ /\ result' = "StartErr"
          /\ resolved' = "startErr"
          /\ pc' = "returned"
          /\ UNCHANGED <<defers, child, ptmxOpen>>
       \/ /\ child' = "running"
          /\ ptmxOpen' = TRUE
          /\ defers' = <<"ptmxClose">> \o defers
          /\ pc' = "goWait"
          /\ UNCHANGED <<result, resolved>>
    /\ UNCHANGED <<err, ptyFixed, exitStatus, ptyBuf, written, waitVars, outVars,
                   termVars, sizeVars, inVars, detVars, crCanceled>>

\* go func() { waitErr <- cmd.Wait() }()
GoWait ==
    /\ pc = "goWait"
    /\ waitPc' = "waiting"
    /\ pc' = "makeRaw"
    /\ UNCHANGED <<result, resolved, err, defers, ptyFixed, childVars, waitVal, waitErr,
                   outVars, termVars, sizeVars, inVars, detVars, ptmxOpen, crCanceled>>

\* MakeRaw with the restore not deferred
MakeRaw_NoDefer ==
    /\ pc = "makeRaw"
    /\ \/ /\ ~stdinHasFd
          /\ UNCHANGED termVars
       \/ /\ stdinHasFd
          /\ oldState' = termMode
          /\ termMode' = "raw"
          /\ enterCalls' = enterCalls + 1
          /\ UNCHANGED restoreCalls
       \/ /\ stdinHasFd
          /\ UNCHANGED termVars
    /\ pc' = "resize"
    /\ UNCHANGED <<result, resolved, err, defers, ptyFixed, childVars, waitVars,
                   outVars, sizeVars, inVars, detVars, ptmxOpen, crCanceled>>

\* MakeRaw that treats a failure of term.MakeRaw as fatal
MakeRaw_FailFatal ==
    /\ pc = "makeRaw"
    /\ \/ /\ ~stdinHasFd
          /\ pc' = "resize"
          /\ UNCHANGED <<defers, termVars, result, resolved>>
       \/ /\ stdinHasFd
          /\ oldState' = termMode
          /\ termMode' = "raw"
          /\ enterCalls' = enterCalls + 1
          /\ defers' = <<"restoreFn">> \o defers
          /\ pc' = "resize"
          /\ UNCHANGED <<restoreCalls, result, resolved>>
       \/ /\ stdinHasFd
          /\ Return("MakeRawErr", "rawErr")
          /\ UNCHANGED <<defers, termVars>>
    /\ UNCHANGED <<err, ptyFixed, childVars, waitVars, outVars,
                   sizeVars, inVars, detVars, ptmxOpen, crCanceled>>

\* restoreFn, err := makeRawIfPossible(ioCfg.Stdin)
\* if err == nil && restoreFn != nil { defer restoreFn() }
MakeRaw ==
    /\ pc = "makeRaw"
    /\ \/ /\ ~stdinHasFd
          /\ UNCHANGED <<defers, termVars>>
       \/ /\ stdinHasFd
          /\ oldState' = termMode
          /\ termMode' = "raw"
          /\ enterCalls' = enterCalls + 1
          /\ defers' = <<"restoreFn">> \o defers
          /\ UNCHANGED restoreCalls
       \/ /\ stdinHasFd
          /\ UNCHANGED <<defers, termVars>>
    /\ pc' = "resize"
    /\ UNCHANGED <<result, resolved, err, ptyFixed, childVars, waitVars, outVars,
                   sizeVars, inVars, detVars, ptmxOpen, crCanceled>>

\* ResizeSetup with the two deferred calls registered in the other order
ResizeSetup_CloseBeforeStop ==
    /\ pc = "resize"
    /\ resizeChOpen' = "open"
    /\ subscribed' = stdoutIsFile
    /\ resizePc' = IF stdoutIsFile THEN "ranging" ELSE "idle"
    /\ defers' = <<"closeResizeCh", "signalStop">> \o defers
    /\ pc' = "goOutput"
    /\ UNCHANGED <<result, resolved, err, ptyFixed, childVars, waitVars, outVars,
                   termVars, inVars, detVars, ptmxOpen, crCanceled, resizeCh,
                   sentOnClosed>>

\* resizeCh := make(...); defer close(resizeCh); if Stdout is a file:
\* signal.Notify and go func() { for range resizeCh {...} }();
\* defer signal.Stop(resizeCh)
ResizeSetup ==
    /\ pc = "resize"
    /\ resizeChOpen' = "open"
    /\ subscribed' = stdoutIsFile
    /\ resizePc' = IF stdoutIsFile THEN "ranging" ELSE "idle"
    /\ defers' = <<"signalStop", "closeResizeCh">> \o defers
    /\ pc' = "goOutput"
    /\ UNCHANGED <<resizeCh, sentOnClosed, result, resolved, err, ptyFixed, childVars, waitVars, outVars,
                   termVars, inVars, detVars, ptmxOpen, crCanceled>>

\* outputDone := make(chan struct{}); go func() { io.Copy; close(outputDone) }()
GoOutput ==
    /\ pc = "goOutput"
    /\ outPc' = "copying"
    /\ pc' = "newReader"
    /\ UNCHANGED <<result, resolved, err, defers, ptyFixed, childVars, waitVars,
                   outputDone, delivered, termVars, sizeVars, inVars, detVars,
                   ptmxOpen, crCanceled>>

\* cr, err := cancelreader.NewReader(ioCfg.Stdin); on error go kill the child
NewReader ==
    /\ pc = "newReader"
    /\ \/ /\ pc' = "crKill"
          /\ UNCHANGED defers
       \/ /\ defers' = <<"crCancel">> \o defers
          /\ pc' = "goInput"
    /\ UNCHANGED <<result, resolved, err, ptyFixed, childVars, waitVars, outVars,
                   termVars, sizeVars, inVars, detVars, ptmxOpen, crCanceled>>

\* if cmd.Process != nil { _ = cmd.Process.Kill() }
CrKill ==
    /\ pc = "crKill"
    /\ killCalls' = killCalls + 1
    /\ eventLog' = Append(eventLog, "kill")
    /\ pc' = "crWait"
    /\ UNCHANGED <<result, resolved, err, defers, ptyFixed, childVars, waitVars, outVars,
                   termVars, sizeVars, inVars, intCalls, timerFired, exitedFirst,
                   detachCase, ptmxOpen, crCanceled,
                   sleepArg, afterArg>>

\* <-waitErr; return err
CrWait ==
    /\ pc = "crWait"
    /\ waitErr # <<>>
    /\ waitErr' = Tail(waitErr)
    /\ Return("NewReaderErr", "readerErr")
    /\ UNCHANGED <<defers, err, ptyFixed, childVars, waitPc, waitVal, outVars, termVars,
                   sizeVars, inVars, detVars, ptmxOpen, crCanceled>>

\* inputErr := make(chan error, 1); go func() { ... }()
GoInput ==
    /\ pc = "goInput"
    /\ inPc' = "read"
    /\ pc' = "select"
    /\ UNCHANGED <<result, resolved, err, defers, ptyFixed, childVars, waitVars, outVars,
                   termVars, sizeVars, inPos, buf, bufIdx, readErr, forwarded,
                   inputErr, detachCount, detVars, ptmxOpen, crCanceled>>

\* ----------------------------------------------- main goroutine: the loop
\* case err := <-waitErr:
SelectWaitErr ==
    /\ pc = "select"
    /\ waitErr # <<>>
    /\ err' = Head(waitErr)
    /\ waitErr' = Tail(waitErr)
    /\ pc' = "exitOutput"
    /\ UNCHANGED <<result, resolved, defers, ptyFixed, childVars, waitPc, waitVal,
                   outVars, termVars, sizeVars, inVars, detVars, ptmxOpen, crCanceled>>

\* ExitWaitOutput that drops the error of the process wait
ExitWaitOutput_DropsErr ==
    /\ pc = "exitOutput"
    /\ outputDone
    /\ Return("nil", "exit")
    /\ UNCHANGED <<defers, err, ptyFixed, childVars, waitVars, outVars, termVars,
                   sizeVars, inVars, detVars, ptmxOpen, crCanceled>>

\* <-outputDone; return err
ExitWaitOutput ==
    /\ pc = "exitOutput"
    /\ outputDone
    /\ Return(err, "exit")
    /\ UNCHANGED <<defers, err, ptyFixed, childVars, waitVars, outVars, termVars,
                   sizeVars, inVars, detVars, ptmxOpen, crCanceled>>

\* SelectInputErr that reports end-of-file on the input as success
SelectInputErr_EOFIsNil ==
    /\ pc = "select"
    /\ inputErr # <<>>
    /\ err' = Head(inputErr)
    /\ inputErr' = Tail(inputErr)
    /\ IF Head(inputErr) = "ErrDetached"
         THEN /\ pc' = "interrupt1"
              /\ resolved' = "detach"
              /\ UNCHANGED result
         ELSE IF Head(inputErr) = "ErrCanceled"
         THEN /\ pc' = "select"
              /\ UNCHANGED <<result, resolved>>
         ELSE Return(IF Head(inputErr) = "EOF" THEN "nil" ELSE Head(inputErr),
                     "inputErr")
    /\ UNCHANGED <<defers, ptyFixed, childVars, waitVars, outVars, termVars, sizeVars,
                   inPos, inPc, buf, bufIdx, readErr, forwarded, detachCount,
                   detVars, ptmxOpen, crCanceled>>

\* case err := <-inputErr: detach, continue on ErrCanceled, or return err
SelectInputErr ==
    /\ pc = "select"
    /\ inputErr # <<>>
    /\ err' = Head(inputErr)
    /\ inputErr' = Tail(inputErr)
    /\ IF Head(inputErr) = "ErrDetached"
         THEN /\ pc' = "interrupt1"
              /\ resolved' = "detach"
              /\ UNCHANGED result
         ELSE IF Head(inputErr) = "ErrCanceled"
         THEN /\ pc' = "select"
              /\ UNCHANGED <<result, resolved>>
         ELSE Return(Head(inputErr), "inputErr")
    /\ UNCHANGED <<defers, ptyFixed, childVars, waitVars, outVars, termVars, sizeVars,
                   inPos, inPc, buf, bufIdx, readErr, forwarded, detachCount,
                   detVars, ptmxOpen, crCanceled>>

\* --------------------------------------------------------------- detach
\* sendInterrupt(proc): syscall.Kill(-pid, SIGINT); proc.Signal(os.Interrupt)
sendInterrupt ==
    /\ intCalls' = intCalls + 1
    /\ eventLog' = eventLog \o <<"sigint_group", "sigint_proc">>

\* sendInterrupts: first sendInterrupt(proc)
Interrupt1 ==
    /\ pc = "interrupt1"
    /\ sendInterrupt
    /\ pc' = "sleep"
    /\ UNCHANGED <<result, resolved, defers, err, ptyFixed, childVars, waitVars,
                   outVars, termVars, sizeVars, inVars, killCalls, timerFired,
                   exitedFirst, detachCase, ptmxOpen, crCanceled,
                   sleepArg, afterArg>>

\* time.Sleep(delay)
Sleep ==
    /\ pc = "sleep"
    /\ eventLog' = Append(eventLog, "delay")
    /\ sleepArg' = Append(sleepArg, interruptDelay)
    /\ pc' = "interrupt2"
    /\ UNCHANGED <<result, resolved, defers, err, ptyFixed, childVars, waitVars,
                   outVars, termVars, sizeVars, inVars, intCalls, killCalls,
                   timerFired, exitedFirst, detachCase, ptmxOpen, crCanceled,
                   afterArg>>

\* sendInterrupts: second sendInterrupt(proc); detach then enters its select,
\* which starts the timer time.After(timeout)
Interrupt2 ==
    /\ pc = "interrupt2"
    /\ sendInterrupt
    /\ afterArg' = Append(afterArg, interruptTimeout)
    /\ pc' = "detachSelect"
    /\ UNCHANGED <<result, resolved, defers, err, ptyFixed, childVars, waitVars,
                   outVars, termVars, sizeVars, inVars, killCalls, timerFired,
                   exitedFirst, detachCase, ptmxOpen, crCanceled,
                   sleepArg>>

\* the timer of time.After(timeout) fires while detach is in its select
TimerFire ==
    /\ pc = "detachSelect"
    /\ ~timerFired
    /\ timerFired' = TRUE
    /\ exitedFirst' = (child = "exited")
    /\ eventLog' = Append(eventLog, "timeout")
    /\ UNCHANGED <<mainVars, ptyFixed, childVars, waitVars, outVars, termVars,
                   sizeVars, inVars, intCalls, killCalls, detachCase, ptmxOpen,
                   crCanceled,
                   sleepArg, afterArg>>

\* DetachSelectWaitErr that also kills the process
DetachSelectWaitErr_Kills ==
    /\ pc = "detachSelect"
    /\ waitErr # <<>>
    /\ waitErr' = Tail(waitErr)
    /\ detachCase' = "wait"
    /\ killCalls' = killCalls + 1
    /\ eventLog' = Append(eventLog, "kill")
    /\ pc' = "detachOutput"
    /\ UNCHANGED <<result, resolved, defers, err, ptyFixed, childVars, waitPc,
                   waitVal, outVars, termVars, sizeVars, inVars, intCalls,
                   timerFired, exitedFirst, ptmxOpen, crCanceled,
                   sleepArg, afterArg>>

\* case <-waitErr:
DetachSelectWaitErr ==
    /\ pc = "detachSelect"
    /\ waitErr # <<>>
    /\ waitErr' = Tail(waitErr)
    /\ detachCase' = "wait"
    /\ pc' = "detachOutput"
    /\ UNCHANGED <<result, resolved, defers, err, ptyFixed, childVars, waitPc,
                   waitVal, outVars, termVars, sizeVars, inVars, intCalls,
                   killCalls, timerFired, exitedFirst, eventLog, ptmxOpen,
                   crCanceled,
                   sleepArg, afterArg>>

\* DetachSelectTimeout that does not wait for the timer
DetachSelectTimeout_NoTimer ==
    /\ pc = "detachSelect"
    /\ detachCase' = "timeout"
    /\ pc' = "detachKill"
    /\ UNCHANGED <<result, resolved, defers, err, ptyFixed, childVars, waitVars,
                   outVars, termVars, sizeVars, inVars, intCalls, killCalls,
                   timerFired, exitedFirst, eventLog, ptmxOpen, crCanceled,
                   sleepArg, afterArg>>

\* case <-time.After(timeout):
DetachSelectTimeout ==
    /\ pc = "detachSelect"
    /\ timerFired
    /\ detachCase' = "timeout"
    /\ pc' = "detachKill"
    /\ UNCHANGED <<result, resolved, defers, err, ptyFixed, childVars, waitVars,
                   outVars, termVars, sizeVars, inVars, intCalls, killCalls,
                   timerFired, exitedFirst, eventLog, ptmxOpen, crCanceled,
                   sleepArg, afterArg>>

\* if cmd.Process != nil { _ = cmd.Process.Kill() }
DetachKill ==
    /\ pc = "detachKill"
    /\ killCalls' = killCalls + 1
    /\ eventLog' = Append(eventLog, "kill")
    /\ pc' = "detachWait"
    /\ UNCHANGED <<result, resolved, defers, err, ptyFixed, childVars, waitVars,
                   outVars, termVars, sizeVars, inVars, intCalls, timerFired,
                   exitedFirst, detachCase, ptmxOpen, crCanceled,
                   sleepArg, afterArg>>

\* <-waitErr (timeout case)
DetachWait ==
    /\ pc = "detachWait"
    /\ waitErr # <<>>
    /\ waitErr' = Tail(waitErr)
    /\ pc' = "detachOutput"
    /\ UNCHANGED <<result, resolved, defers, err, ptyFixed, childVars, waitPc,
                   waitVal, outVars, termVars, sizeVars, inVars, detVars,
                   ptmxOpen, crCanceled>>

\* DetachOutput that returns what the process wait returned
DetachOutput_ReturnsWaitResult ==
    /\ pc = "detachOutput"
    /\ outputDone
    /\ Return(IF waitVal = "nil" THEN "ErrDetached" ELSE waitVal, "detach")
    /\ UNCHANGED <<defers, err, ptyFixed, childVars, waitVars, outVars, termVars,
                   sizeVars, inVars, detVars, ptmxOpen, crCanceled>>

\* DetachOutput that does not wait for the output relay
DetachOutput_NoOutputWait ==
    /\ pc = "detachOutput"
    /\ Return("ErrDetached", "detach")
    /\ UNCHANGED <<defers, err, ptyFixed, childVars, waitVars, outVars, termVars,
                   sizeVars, inVars, detVars, ptmxOpen, crCanceled>>

\* <-outputDone; return ErrDetached
DetachOutput ==
    /\ pc = "detachOutput"
    /\ outputDone
    /\ Return("ErrDetached", "detach")
    /\ UNCHANGED <<defers, err, ptyFixed, childVars, waitVars, outVars, termVars,
                   sizeVars, inVars, detVars, ptmxOpen, crCanceled>>

\* ------------------------------------------------------- deferred calls
\* the deferred calls run in reverse order of registration, then the call returns
RunDefer ==
    /\ pc = "defer"
    /\ IF defers = <<>>
         THEN /\ pc' = "returned"
              /\ UNCHANGED <<defers, crCanceled, subscribed, resizeChOpen,
                             termMode, restoreCalls, ptmxOpen>>
         ELSE /\ defers' = Tail(defers)
              /\ pc' = "defer"
              /\ crCanceled' = IF Head(defers) = "crCancel" THEN TRUE ELSE crCanceled
              /\ subscribed' = IF Head(defers) = "signalStop" THEN FALSE ELSE subscribed
              /\ resizeChOpen' = IF Head(defers) = "closeResizeCh" THEN "closed"
                                 ELSE resizeChOpen
              /\ termMode' = IF Head(defers) = "restoreFn" THEN oldState ELSE termMode
              /\ restoreCalls' = IF Head(defers) = "restoreFn" THEN restoreCalls + 1
                                 ELSE restoreCalls
              /\ ptmxOpen' = IF Head(defers) = "ptmxClose" THEN FALSE ELSE ptmxOpen
    /\ UNCHANGED <<result, resolved, err, ptyFixed, childVars, waitVars, outVars,
                   oldState, enterCalls, inVars, detVars, resizeCh, resizePc,
                   sentOnClosed>>

\* ------------------------------------------------ child process and PTY
\* the child writes a byte to its terminal (the PTY slave)
ChildOutput ==
    /\ child = "running"
    /\ ptmxOpen
    /\ written < MaxOut
    /\ written' = written + 1
    /\ ptyBuf' = ptyBuf + 1
    /\ UNCHANGED <<mainVars, ptyFixed, child, exitStatus, waitVars, outVars, termVars,
                   sizeVars, inVars, detVars, ptmxOpen, crCanceled>>

\* the child terminates: by itself, on an interrupt, on the kill or on hang-up
ChildExit ==
    /\ child = "running"
    /\ child' = "exited"
    /\ exitStatus' \in {0, 1}
    /\ UNCHANGED <<mainVars, ptyFixed, ptyBuf, written, waitVars, outVars, termVars,
                   sizeVars, inVars, detVars, ptmxOpen, crCanceled>>

\* ------------------------------------------------- process-wait goroutine
\* cmd.Wait() returns once the child has terminated
WaitReturn ==
    /\ waitPc = "waiting"
    /\ child = "exited"
    /\ waitVal' = IF exitStatus = 0 THEN "nil" ELSE "ExitError"
    /\ waitPc' = "send"
    /\ UNCHANGED <<mainVars, ptyFixed, childVars, waitErr, outVars, termVars,
                   sizeVars, inVars, detVars, ptmxOpen, crCanceled>>

\* waitErr <- (result of cmd.Wait())
WaitSend ==
    /\ waitPc = "send"
    /\ Len(waitErr) < WaitErrCap
    /\ waitErr' = Append(waitErr, waitVal)
    /\ waitPc' = "done"
    /\ UNCHANGED <<mainVars, ptyFixed, childVars, waitVal, outVars, termVars,
                   sizeVars, inVars, detVars, ptmxOpen, crCanceled>>

\* ----------------------------------------------------------- output relay
\* io.Copy(ioCfg.Stdout, ptmx): one byte read from ptmx and written to Stdout
OutCopy ==
    /\ outPc = "copying"
    /\ ptmxOpen
    /\ ptyBuf > 0
    /\ ptyBuf' = ptyBuf - 1
    /\ delivered' = delivered + 1
    /\ UNCHANGED <<mainVars, ptyFixed, child, exitStatus, written, waitVars, outPc,
                   outputDone, termVars, sizeVars, inVars, detVars, ptmxOpen,
                   crCanceled>>

\* OutEOF that ends the copy only when ptmx itself is closed
OutEOF_OnlyOnClose ==
    /\ outPc = "copying"
    /\ ~ptmxOpen
    /\ outPc' = "eof"
    /\ UNCHANGED <<mainVars, ptyFixed, childVars, waitVars, outputDone, delivered,
                   termVars, sizeVars, inVars, detVars, ptmxOpen, crCanceled>>

\* io.Copy returns: the read from ptmx fails because the slave side is closed
\* and drained, or because ptmx itself was closed
OutEOF ==
    /\ outPc = "copying"
    /\ \/ ~ptmxOpen
       \/ child = "exited" /\ ptyBuf = 0
    /\ outPc' = "eof"
    /\ UNCHANGED <<mainVars, ptyFixed, childVars, waitVars, outputDone, delivered,
                   termVars, sizeVars, inVars, detVars, ptmxOpen, crCanceled>>

\* close(outputDone)
OutClose ==
    /\ outPc = "eof"
    /\ outputDone' = TRUE
    /\ outPc' = "done"
    /\ UNCHANGED <<mainVars, ptyFixed, childVars, waitVars, delivered, termVars,
                   sizeVars, inVars, detVars, ptmxOpen, crCanceled>>

\* ------------------------------------------------------------ input relay
\* InRead whose caller looks at err before the n bytes it got
InRead_ErrBeforeData ==
    /\ inPc = "read"
    /\ \/ /\ crCanceled
          /\ buf' = <<>>
          /\ readErr' = "ErrCanceled"
          /\ UNCHANGED inPos
       \/ /\ ~crCanceled
          /\ \E n \in 1..Min(Len(input) - inPos, ReadBufSize) :
               /\ inPos' = inPos + n
               /\ readErr' \in IF inPos + n = Len(input)
                                 THEN {"nil", "EOF", "ReadErr"} ELSE {"nil"}
               /\ buf' = IF readErr' = "nil"
                           THEN SubSeq(input, inPos + 1, inPos + n) ELSE <<>>
       \/ /\ ~crCanceled
          /\ inPos = Len(input)
          /\ buf' = <<>>
          /\ readErr' \in {"EOF", "ReadErr", "ErrCanceled"}
          /\ UNCHANGED inPos
    /\ bufIdx' = 1
    /\ inPc' = "loop"
    /\ UNCHANGED <<mainVars, ptyFixed, childVars, waitVars, outVars, termVars,
                   sizeVars, forwarded, inputErr, detachCount, detVars, ptmxOpen,
                   crCanceled>>

\* n, err := cr.Read(buf)
InRead ==
    /\ inPc = "read"
    /\ \/ /\ crCanceled
          /\ buf' = <<>>
          /\ readErr' = "ErrCanceled"
          /\ UNCHANGED inPos
       \/ /\ ~crCanceled
          /\ \E n \in 1..Min(Len(input) - inPos, ReadBufSize) :
               /\ buf' = SubSeq(input, inPos + 1, inPos + n)
               /\ inPos' = inPos + n
               /\ readErr' \in IF inPos + n = Len(input)
                                 THEN {"nil", "EOF", "ReadErr"} ELSE {"nil"}
       \/ /\ ~crCanceled
          /\ inPos = Len(input)
          /\ buf' = <<>>
          /\ readErr' \in {"EOF", "ReadErr", "ErrCanceled"}
          /\ UNCHANGED inPos
    /\ bufIdx' = 1
    /\ inPc' = "loop"
    /\ UNCHANGED <<mainVars, ptyFixed, childVars, waitVars, outVars, termVars,
                   sizeVars, forwarded, inputErr, detachCount, detVars, ptmxOpen,
                   crCanceled>>

\* InByte that goes on with the chunk after raising the detach signal
InByte_NoReturn ==
    /\ inPc = "loop"
    /\ bufIdx <= Len(buf)
    /\ IF buf[bufIdx] = detachKey
         THEN /\ Len(inputErr) < InputErrCap
              /\ inputErr' = Append(inputErr, "ErrDetached")
              /\ detachCount' = detachCount + 1
              /\ bufIdx' = bufIdx + 1
              /\ UNCHANGED <<forwarded, inPc>>
         ELSE \/ /\ ptmxOpen
                 /\ forwarded' = Append(forwarded, buf[bufIdx])
                 /\ bufIdx' = bufIdx + 1
                 /\ UNCHANGED <<inputErr, detachCount, inPc>>
              \/ /\ ~ptmxOpen \/ child = "exited"
                 /\ Len(inputErr) < InputErrCap
                 /\ inputErr' = Append(inputErr, "WriteErr")
                 /\ inPc' = "done"
                 /\ UNCHANGED <<forwarded, bufIdx, detachCount>>
    /\ UNCHANGED <<mainVars, ptyFixed, childVars, waitVars, outVars, termVars,
                   sizeVars, inPos, buf, readErr, detVars, ptmxOpen, crCanceled>>

\* loop body for buf[i]: detach key -> inputErr <- ErrDetached; return
\* otherwise ptmx.Write(buf[i:i+1]), on error inputErr <- werr; return
InByte ==
    /\ inPc = "loop"
    /\ bufIdx <= Len(buf)
    /\ IF buf[bufIdx] = detachKey
         THEN /\ Len(inputErr) < InputErrCap
              /\ inputErr' = Append(inputErr, "ErrDetached")
              /\ detachCount' = detachCount + 1
              /\ inPc' = "done"
              /\ UNCHANGED <<forwarded, bufIdx>>
         ELSE \/ /\ ptmxOpen
                 /\ forwarded' = Append(forwarded, buf[bufIdx])
                 /\ bufIdx' = bufIdx + 1
                 /\ UNCHANGED <<inputErr, detachCount, inPc>>
              \/ /\ ~ptmxOpen \/ child = "exited"
                 /\ Len(inputErr) < InputErrCap
                 /\ inputErr' = Append(inputErr, "WriteErr")
                 /\ inPc' = "done"
                 /\ UNCHANGED <<forwarded, bufIdx, detachCount>>
    /\ UNCHANGED <<mainVars, ptyFixed, childVars, waitVars, outVars, termVars,
                   sizeVars, inPos, buf, readErr, detVars, ptmxOpen, crCanceled>>

\* InChunkEnd that reads again after sending the error
InChunkEnd_NoReturn ==
    /\ inPc = "loop"
    /\ bufIdx > Len(buf)
    /\ IF readErr # "nil"
         THEN /\ Len(inputErr) < InputErrCap
              /\ inputErr' = Append(inputErr, readErr)
         ELSE UNCHANGED inputErr
    /\ inPc' = "read"
    /\ UNCHANGED <<mainVars, ptyFixed, childVars, waitVars, outVars, termVars,
                   sizeVars, inPos, buf, bufIdx, readErr, forwarded, detachCount,
                   detVars, ptmxOpen, crCanceled>>

\* after the chunk: if err != nil { inputErr <- err; return }, else read again
InChunkEnd ==
    /\ inPc = "loop"
    /\ bufIdx > Len(buf)
    /\ IF readErr # "nil"
         THEN /\ Len(inputErr) < InputErrCap
              /\ inputErr' = Append(inputErr, readErr)
              /\ inPc' = "done"
         ELSE /\ inPc' = "read"
              /\ UNCHANGED inputErr
    /\ UNCHANGED <<mainVars, ptyFixed, childVars, waitVars, outVars, termVars,
                   sizeVars, inPos, buf, bufIdx, readErr, forwarded, detachCount,
                   detVars, ptmxOpen, crCanceled>>

\* ------------------------------------------- window-size notifications
\* the terminal window changes size: the signal package sends SIGWINCH on the
\* subscribed channel without blocking (a notification is dropped when the
\* buffer is full)
SigWinch ==
    /\ subscribed
    /\ \/ /\ resizeChOpen = "open"
          /\ resizeCh < 1
          /\ resizeCh' = resizeCh + 1
          /\ UNCHANGED sentOnClosed
       \/ /\ resizeChOpen = "closed"
          /\ sentOnClosed' = TRUE
          /\ UNCHANGED resizeCh
    /\ UNCHANGED <<mainVars, ptyFixed, childVars, waitVars, outVars, termVars,
                   subscribed, resizeChOpen, resizePc, inVars, detVars, ptmxOpen,
                   crCanceled>>

\* for range resizeCh { _ = pty.InheritSize(tty, ptmx) }: one notification
ResizeRecv ==
    /\ resizePc = "ranging"
    /\ resizeCh > 0
    /\ resizeCh' = resizeCh - 1
    /\ UNCHANGED <<mainVars, ptyFixed, childVars, waitVars, outVars, termVars,
                   subscribed, resizeChOpen, resizePc, sentOnClosed, inVars,
                   detVars, ptmxOpen, crCanceled>>

\* the range loop ends when resizeCh is closed and drained
ResizeExit ==
    /\ resizePc = "ranging"
    /\ resizeCh = 0
    /\ resizeChOpen = "closed"
    /\ resizePc' = "done"
    /\ UNCHANGED <<mainVars, ptyFixed, childVars, waitVars, outVars, termVars,
                   subscribed, resizeChOpen, resizeCh, sentOnClosed, inVars,
                   detVars, ptmxOpen, crCanceled>>

\* -------------------------------------------------------- specification
Next ==
    \/ PtyStart \/ GoWait \/ MakeRaw \/ ResizeSetup \/ GoOutput \/ NewReader
    \/ CrKill \/ CrWait \/ GoInput
    \/ SelectWaitErr \/ ExitWaitOutput \/ SelectInputErr
    \/ Interrupt1 \/ Sleep \/ Interrupt2 \/ TimerFire
    \/ DetachSelectWaitErr \/ DetachSelectTimeout \/ DetachKill \/ DetachWait
    \/ DetachOutput \/ RunDefer
    \/ ChildOutput \/ ChildExit \/ WaitReturn \/ WaitSend
    \/ OutCopy \/ OutEOF \/ OutClose
    \/ InRead \/ InByte \/ InChunkEnd

Spec == Init /\ [][Next]_vars

\* RunWithPTY together with the window-size notifications and the resize
\* goroutine, for input streams of at most one byte and the default detach key
InitResize ==
    /\ Init
    /\ Len(input) <= 1
    /\ optDetachKey = 0

NextResize == Next \/ SigWinch \/ ResizeRecv \/ ResizeExit

SpecResize == InitResize /\ [][NextResize]_vars

\* the scheduler runs every goroutine that can take a step
FairSpecResize ==
    /\ SpecResize
    /\ WF_vars(ResizeRecv)
    /\ WF_vars(ResizeExit)

\* ===================================================== claims: RunWithPTY
\* RunWithPTY has returned after pty.Start succeeded
ReturnedAfterStart == pc = "returned" /\ resolved # "startErr"

\* the input stream holds no byte equal to the detach key
NoDetachByte == \A i \in 1..Len(input) : input[i] # detachKey

\* position of the first detach byte of the input stream (0 if there is none)
FirstDetach ==
    IF NoDetachByte THEN 0
    ELSE CHOOSE k \in 1..Len(input) :
           /\ input[k] = detachKey
           /\ \A j \in 1..(k - 1) : input[j] # detachKey

\* the events of a complete forced detach, in protocol order
DetachOrder ==
    <<"sigint_group", "sigint_proc", "delay", "sigint_group", "sigint_proc",
      "timeout", "kill">>

\* C1: on every return of RunWithPTY after the PTY was started, the output
\* relay has finished its copy loop (it has observed end-of-stream).
C1_OutputRelayDoneOnReturn ==
    ReturnedAfterStart => outPc \in {"eof", "done"}

\* C2: on every return of RunWithPTY the terminal mode of the input stream is
\* the mode it had before the call, and the restore primitive has been called
\* once if raw mode was entered and never otherwise.
C2_TerminalModeRestored ==
    /\ restoreCalls <= enterCalls
    /\ enterCalls <= 1
    /\ pc = "returned" => (termMode = initMode /\ restoreCalls = enterCalls)

C2_Witness ==
    /\ pc = "returned"
    /\ resolved = "readerErr"
    /\ initMode = "cooked"
    /\ enterCalls = 1
    /\ restoreCalls = 1

\* C3: on every return of RunWithPTY after the PTY was started, the PTY master
\* is closed and the child has terminated and has been waited on.
C3_SessionTornDownOnReturn ==
    ReturnedAfterStart =>
        (~ptmxOpen /\ child = "exited" /\ waitPc \in {"send", "done"})

C5_DetachReturnsSentinel ==
    (resolved = "detach" /\ pc \in {"defer", "returned"}) => result = "ErrDetached"

C5_Witness ==
    /\ pc = "returned"
    /\ resolved = "detach"
    /\ detachCase = "timeout"
    /\ waitVal = "ExitError"
    /\ result = "ErrDetached"

\* C6: the detach protocol is: interrupt (process group, then process), the
\* grace delay, second interrupt, expiry of the timeout, and only then the
\* kill; at every moment the events so far are a prefix of that order.
C6_DetachProtocolOrder ==
    resolved = "detach" => IsPrefix(eventLog, DetachOrder)

C6_Witness ==
    /\ pc = "returned"
    /\ resolved = "detach"
    /\ eventLog = DetachOrder

\* C7: in every detach sub-case RunWithPTY returns only after the process
\* wait has delivered its result and the output relay has completed.
C7_DetachWaitsForBoth ==
    (pc \in {"defer", "returned"} /\ resolved = "detach") =>
        (waitPc = "done" /\ waitErr = <<>> /\ outputDone /\ outPc = "done")

C7_Witness ==
    /\ pc = "returned"
    /\ resolved = "detach"
    /\ detachCase = "wait"
    /\ delivered = written
    /\ written > 0

\* a write to ptmx failed: the relay stopped in the middle of a chunk at a byte
\* that is not the detach key
WriteFailed ==
    inPc = "done" /\ bufIdx <= Len(buf) /\ buf[bufIdx] # detachKey

\* C8: for an input stream without a detach byte, and with the writes to the
\* PTY succeeding, the bytes forwarded are exactly the bytes read so far minus
\* the unprocessed rest of the current chunk: every byte read is forwarded in
\* input order, exactly once, whatever the sizes of the reads.
C8_ForwardsAllInOrder ==
    (NoDetachByte /\ ~WriteFailed) =>
        forwarded = SubSeq(input, 1, inPos - (Len(buf) - bufIdx + 1))

C8_Witness ==
    /\ NoDetachByte
    /\ Len(input) = 2
    /\ input[1] # input[2]
    /\ inPc = "done"
    /\ readErr = "EOF"
    /\ forwarded = input

\* C9: when the first detach byte is at position k, exactly the bytes before
\* k are forwarded, the byte at k is consumed and no byte after k is read from
\* the input stream.
C9_NothingReadAfterDetach ==
    detachCount > 0 =>
        /\ forwarded = SubSeq(input, 1, FirstDetach - 1)
        /\ inPos = FirstDetach

\* C10: the detach signal is raised at most once per run.
C10_DetachRaisedAtMostOnce ==
    detachCount <= 1

C10_Witness ==
    /\ detachCount = 1
    /\ inPc = "done"
    /\ Len(input) = 2
    /\ input[1] = detachKey
    /\ input[2] = detachKey
    /\ inPos = 2
    /\ pc = "returned"

\* C11: when the run is resolved by process exit, RunWithPTY returns the
\* result of the process wait unchanged: nil for exit status 0, the child's
\* own error otherwise.
C11_ExitReturnsWaitResult ==
    (resolved = "exit" /\ pc \in {"defer", "returned"}) =>
        /\ result = waitVal
        /\ result = (IF exitStatus = 0 THEN "nil" ELSE "ExitError")

C11_Witness ==
    /\ pc = "returned"
    /\ resolved = "exit"
    /\ exitStatus = 1
    /\ result = "ExitError"

\* C12: an input stream that is closed (end-of-file) or canceled from outside
\* is benign: RunWithPTY never returns that condition as its error.
C12_ClosedInputIsBenign ==
    pc \in {"defer", "returned"} => result \notin {"EOF", "ErrCanceled"}

\* the error the input relay sent on inputErr
RelayError == IF WriteFailed THEN "WriteErr" ELSE readErr

\* C13: an input-relay error other than cancellation that resolves the run
\* (a read error or a PTY write error) is returned by RunWithPTY unchanged.
C13_InputErrorReturnedUnchanged ==
    (resolved = "inputErr" /\ pc \in {"defer", "returned"}) =>
        /\ inPc = "done"
        /\ result = RelayError
        /\ result \in {"EOF", "ReadErr", "WriteErr"}

C13_Witness ==
    /\ pc = "returned"
    /\ resolved = "inputErr"
    /\ forwarded # <<>>
    /\ result = "EOF"

\* C14: when pty.Start fails, RunWithPTY returns that error at once: raw mode
\* was not entered, no resize subscription was made, no goroutine was started
\* and no call was deferred.
C14_StartFailureReturnsAtOnce ==
    resolved = "startErr" =>
        /\ pc = "returned"
        /\ result = "StartErr"
        /\ child = "notstarted"
        /\ enterCalls = 0
        /\ termMode = initMode
        /\ ~subscribed
        /\ resizeChOpen = "none"
        /\ waitPc = "idle"
        /\ outPc = "idle"
        /\ inPc = "idle"
        /\ defers = <<>>

C14_Witness ==
    /\ resolved = "startErr"
    /\ pc = "returned"
    /\ stdinHasFd
    /\ stdoutIsFile

\* term.MakeRaw was called on Stdin and failed
RawFailed ==
    /\ stdinHasFd
    /\ enterCalls = 0
    /\ pc \notin {"start", "goWait", "makeRaw"}
    /\ resolved # "startErr"

\* C15: a failure to enter raw mode does not fail the run: the main goroutine
\* goes on to start the relays, the run resolves by exit, detach, input error
\* or reader set-up failure as usual, and the restore primitive is never called.
C15_RawFailureNotFatal ==
    RawFailed =>
        /\ restoreCalls = 0
        /\ termMode = initMode
        /\ result \in {"none", "nil", "ExitError", "ErrDetached", "EOF",
                       "ReadErr", "WriteErr", "NewReaderErr"}
        /\ resolved \in {"none", "exit", "detach", "inputErr", "readerErr"}
        /\ pc = "resize" => (result = "none" /\ resolved = "none")
        /\ result # "none" =>
             (outPc # "idle" /\ (resolved # "readerErr" => inPc # "idle"))

C15_Witness ==
    /\ RawFailed
    /\ pc = "returned"
    /\ resolved = "detach"
    /\ restoreCalls = 0
    /\ forwarded # <<>>

\* the resize subscription is never left on a closed channel
ResizeSafe ==
    /\ ~sentOnClosed
    /\ resizeChOpen = "closed" => ~subscribed
    /\ ReturnedAfterStart =>
         /\ ~subscribed
         /\ resizeChOpen = "closed"
         /\ resizePc \in (IF stdoutIsFile THEN {"ranging", "done"} ELSE {"idle"})

\* C16: on every return of RunWithPTY after the resize set-up the subscription
\* has been removed, it was removed before resizeCh was closed (no notification
\* is ever sent on the closed channel), and the resize goroutine terminates.
C16_ResizeTornDown ==
    /\ []ResizeSafe
    /\ (ReturnedAfterStart /\ stdoutIsFile) ~> (resizePc = "done")

C16_Witness ==
    /\ pc = "returned"
    /\ stdoutIsFile
    /\ ~subscribed
    /\ resizeChOpen = "closed"
    /\ resizeCh = 1
    /\ resizePc = "ranging"

\* =========================================================================
\* Part 2: sessions.Store
\* =========================================================================
\* calls a goroutine can make
StoreOps ==
    {[name |-> n, key |-> k, id |-> NoId] :
        n \in {"Get", "GetOrCreate", "Delete"}, k \in Keys}
    \cup {[name |-> "Set", key |-> k, id |-> i] : k \in Keys, i \in UUIDs}

\* first statement of each method after s.mu.Lock()
FirstStep(name) ==
    CASE name = "Get" -> "get_read"
      [] name = "GetOrCreate" -> "goc_check"
      [] name = "Set" -> "set_insert"
      [] name = "Delete" -> "del_check"

\* return from the method body: the deferred unlock is still to run
Finish(p, id, ok, e) ==
    /\ ret' = [ret EXCEPT ![p] = [id |-> id, ok |-> ok, err |-> e]]
    /\ spc' = [spc EXCEPT ![p] = "unlock"]

\* a goroutine calls a Store method
Call(p) ==
    /\ spc[p] = "idle"
    /\ \E o \in StoreOps : op' = [op EXCEPT ![p] = o]
    /\ spc' = [spc EXCEPT ![p] = "lock"]
    /\ UNCHANGED <<sessions, disk, mu, newId, ret, pre, wr, storeFixed>>

\* the next call of a test program that makes a fixed list of calls
CallNext(p) ==
    /\ spc[p] = "idle"
    /\ todo[p] # <<>>
    /\ op' = [op EXCEPT ![p] = Head(todo[p])]
    /\ todo' = [todo EXCEPT ![p] = Tail(todo[p])]
    /\ spc' = [spc EXCEPT ![p] = "lock"]
    /\ UNCHANGED <<sessions, disk, mu, newId, ret, pre, wr, log, loaded,
                   ptyVars, pureVars, callerVars, extraVars>>

\* a Lock that does not wait for the mutex to be free
Lock_NoMutex(p) ==
    /\ spc[p] = "lock"
    /\ mu' = p
    /\ pre' = [pre EXCEPT ![p] = sessions]
    /\ spc' = [spc EXCEPT ![p] = FirstStep(op[p].name)]
    /\ UNCHANGED <<sessions, disk, op, newId, ret, wr, storeFixed>>

\* s.mu.Lock()
Lock(p) ==
    /\ spc[p] = "lock"
    /\ mu = 0
    /\ mu' = p
    /\ pre' = [pre EXCEPT ![p] = sessions]
    /\ spc' = [spc EXCEPT ![p] = FirstStep(op[p].name)]
    /\ UNCHANGED <<sessions, disk, op, newId, ret, wr, storeFixed>>

\* defer s.mu.Unlock(): the mutex is released and the locals of the call go
Release(p) ==
    /\ spc[p] = "unlock"
    /\ mu' = 0
    /\ spc' = [spc EXCEPT ![p] = "idle"]
    /\ op' = [op EXCEPT ![p] = NoOp]
    /\ newId' = [newId EXCEPT ![p] = NoId]
    /\ ret' = [ret EXCEPT ![p] = NoRet]
    /\ pre' = [pre EXCEPT ![p] = EmptyMap]
    /\ wr' = [wr EXCEPT ![p] = 0]
    /\ UNCHANGED <<sessions, disk, ptyVars, pureVars, callerVars, extraVars>>

\* defer s.mu.Unlock(), and the method returns its results to the caller
Unlock(p) ==
    /\ Release(p)
    /\ UNCHANGED harnessVars

\* defer s.mu.Unlock(), and the method returns to a test program that keeps
\* the results: the call made, what it returned and how often it wrote the file
UnlockLog(p) ==
    /\ Release(p)
    /\ log' = [log EXCEPT ![p] =
                  Append(log[p], [op |-> op[p], ret |-> ret[p], wr |-> wr[p]])]
    /\ UNCHANGED <<todo, loaded>>

\* Get: id, ok := s.sessions[appKey]; return id, ok
GetRead(p) ==
    /\ spc[p] = "get_read"
    /\ Finish(p, sessions[op[p].key], sessions[op[p].key] # NoId, "nil")
    /\ UNCHANGED <<sessions, disk, mu, op, newId, pre, wr, storeFixed>>

\* saveLocked succeeds: MkdirAll, MarshalIndent and WriteFile of the whole map
SaveOk(p) ==
    /\ disk' = FileOf(sessions)
    /\ wr' = [wr EXCEPT ![p] = wr[p] + 1]

\* saveLocked fails: MkdirAll or the open fails and the file is as before, or
\* WriteFile fails after it truncated the file
SaveFail ==
    /\ disk' \in {disk, CorruptFile}
    /\ UNCHANGED wr

\* an assignment to an entry of the nil map panics; the deferred Unlock runs
\* while the panic unwinds, and nothing recovers it
NilMapPanic(p) ==
    /\ spc' = [spc EXCEPT ![p] = "panic"]
    /\ mu' = 0
    /\ UNCHANGED sessions

\* GetOrCreate that does not look for an existing entry
GocCheck_NoLookup(p) ==
    /\ spc[p] = "goc_check"
    /\ spc' = [spc EXCEPT ![p] = "goc_uuid"]
    /\ UNCHANGED <<sessions, disk, mu, op, newId, ret, pre, wr, storeFixed>>

\* GetOrCreate: if id, ok := s.sessions[appKey]; ok { return id, false, nil }
GocCheck(p) ==
    /\ spc[p] = "goc_check"
    /\ IF sessions[op[p].key] # NoId
         THEN Finish(p, sessions[op[p].key], FALSE, "nil")
         ELSE /\ spc' = [spc EXCEPT ![p] = "goc_uuid"]
              /\ UNCHANGED ret
    /\ UNCHANGED <<sessions, disk, mu, op, newId, pre, wr, storeFixed>>

\* a GetOrCreate that has put an entry for the key into the map when newUUID
\* fails
GocUUID_FailureLeavesEntry(p) ==
    /\ spc[p] = "goc_uuid"
    /\ \/ /\ Finish(p, NoId, FALSE, "EntropyErr")
          /\ sessions' = [sessions EXCEPT ![op[p].key] = 1]
          /\ UNCHANGED newId
       \/ /\ \E u \in UUIDs : newId' = [newId EXCEPT ![p] = u]
          /\ spc' = [spc EXCEPT ![p] = "goc_insert"]
          /\ UNCHANGED <<ret, sessions>>
    /\ UNCHANGED <<disk, mu, op, pre, wr, storeFixed>>

\* id, err := newUUID(); if err != nil { return "", false, err }
GocUUID(p) ==
    /\ spc[p] = "goc_uuid"
    /\ \/ /\ Finish(p, NoId, FALSE, "EntropyErr")
          /\ UNCHANGED newId
       \/ /\ \E u \in UUIDs : newId' = [newId EXCEPT ![p] = u]
          /\ spc' = [spc EXCEPT ![p] = "goc_insert"]
          /\ UNCHANGED ret
    /\ UNCHANGED <<sessions, disk, mu, op, pre, wr, storeFixed>>

\* s.sessions[appKey] = id
GocInsert(p) ==
    /\ spc[p] = "goc_insert"
    /\ IF sessionsNil
         THEN NilMapPanic(p)
         ELSE /\ sessions' = [sessions EXCEPT ![op[p].key] = newId[p]]
              /\ spc' = [spc EXCEPT ![p] = "goc_save"]
              /\ UNCHANGED mu
    /\ UNCHANGED <<disk, op, newId, ret, pre, wr, storeFixed>>

\* if err := s.saveLocked(); err != nil {...}; return id, true, nil
GocSave(p) ==
    /\ spc[p] = "goc_save"
    /\ \/ /\ SaveOk(p)
          /\ Finish(p, newId[p], TRUE, "nil")
       \/ /\ SaveFail
          /\ spc' = [spc EXCEPT ![p] = "goc_rollback"]
          /\ UNCHANGED ret
    /\ UNCHANGED <<sessions, mu, op, newId, pre, storeFixed>>

\* GetOrCreate that returns the save error without the delete
GocRollback_NoDelete(p) ==
    /\ spc[p] = "goc_rollback"
    /\ Finish(p, NoId, FALSE, "SaveErr")
    /\ UNCHANGED <<sessions, disk, mu, op, newId, pre, wr, storeFixed>>

\* delete(s.sessions, appKey); return "", false, err
GocRollback(p) ==
    /\ spc[p] = "goc_rollback"
    /\ sessions' = [sessions EXCEPT ![op[p].key] = NoId]
    /\ Finish(p, NoId, FALSE, "SaveErr")
    /\ UNCHANGED <<disk, mu, op, newId, pre, wr, storeFixed>>

\* Set: s.sessions[appKey] = id
SetInsert(p) ==
    /\ spc[p] = "set_insert"
    /\ IF sessionsNil
         THEN NilMapPanic(p)
         ELSE /\ sessions' = [sessions EXCEPT ![op[p].key] = op[p].id]
              /\ spc' = [spc EXCEPT ![p] = "set_save"]
              /\ UNCHANGED mu
    /\ UNCHANGED <<disk, op, newId, ret, pre, wr, storeFixed>>

\* Set: return s.saveLocked()
SetSave(p) ==
    /\ spc[p] = "set_save"
    /\ \/ /\ SaveOk(p)
          /\ Finish(p, NoId, FALSE, "nil")
       \/ /\ SaveFail
          /\ Finish(p, NoId, FALSE, "SaveErr")
    /\ UNCHANGED <<sessions, mu, op, newId, pre, storeFixed>>

\* Delete: if _, ok := s.sessions[appKey]; !ok { return nil }
DelCheck(p) ==
    /\ spc[p] = "del_check"
    /\ IF sessions[op[p].key] = NoId
         THEN Finish(p, NoId, FALSE, "nil")
         ELSE /\ spc' = [spc EXCEPT ![p] = "del_delete"]
              /\ UNCHANGED ret
    /\ UNCHANGED <<sessions, disk, mu, op, newId, pre, wr, storeFixed>>

\* a Delete that writes the file but leaves the entry in the map
DelDelete_KeepsEntry(p) ==
    /\ spc[p] = "del_delete"
    /\ spc' = [spc EXCEPT ![p] = "del_save"]
    /\ UNCHANGED <<sessions, disk, mu, op, newId, ret, pre, wr, storeFixed>>

\* Delete: delete(s.sessions, appKey)
DelDelete(p) ==
    /\ spc[p] = "del_delete"
    /\ sessions' = [sessions EXCEPT ![op[p].key] = NoId]
    /\ spc' = [spc EXCEPT ![p] = "del_save"]
    /\ UNCHANGED <<disk, mu, op, newId, ret, pre, wr, storeFixed>>

\* Delete: return s.saveLocked()
DelSave(p) ==
    /\ spc[p] = "del_save"
    /\ \/ /\ SaveOk(p)
          /\ Finish(p, NoId, FALSE, "nil")
       \/ /\ SaveFail
          /\ Finish(p, NoId, FALSE, "SaveErr")
    /\ UNCHANGED <<sessions, mu, op, newId, pre, storeFixed>>

\* a Store loaded from the sessions file, used by NumProcs goroutines; no
\* RunWithPTY call is in progress
InitStore ==
    /\ PtyInit
    /\ input = <<>>
    /\ optDetachKey = 0
    /\ ~stdinHasFd
    /\ ~stdoutIsFile
    /\ StoreInit
    /\ HarnessIdle
    /\ PureIdle
    /\ CallerIdle
    /\ ExtraIdle

NextStore ==
    \E p \in Procs :
        \/ Call(p) \/ Lock(p) \/ Unlock(p)
        \/ GetRead(p)
        \/ GocCheck(p) \/ GocUUID(p) \/ GocInsert(p) \/ GocSave(p) \/ GocRollback(p)
        \/ SetInsert(p) \/ SetSave(p)
        \/ DelCheck(p) \/ DelDelete(p) \/ DelSave(p)

SpecStore == InitStore /\ [][NextStore]_vars

\* ==================================================== claims: the Store
\* goroutine p is about to return from a call of method n
Returning(p, n) == spc[p] = "unlock" /\ op[p].name = n

\* C17: a mutating call (GetOrCreate, Set, Delete) whose write of the sessions
\* file fails returns with the in-memory entry of its key as it was before
\* the call.
C17_FailedWriteKeepsEntry ==
    \A p \in Procs :
        (spc[p] = "unlock" /\ ret[p].err = "SaveErr") =>
            sessions[op[p].key] = pre[p][op[p].key]

\* C18: when the write fails inside GetOrCreate(k) for a key without entry,
\* the call returns the error with no entry for k left in memory (a following
\* Get(k) reports not-found), and while the unsaved entry is in the map no
\* other goroutine is inside a Store method, so none can observe it.
C18_FailedCreateLeavesNoEntry ==
    \A p \in Procs :
        /\ (Returning(p, "GetOrCreate") /\ ret[p].err = "SaveErr") =>
              /\ pre[p][op[p].key] = NoId
              /\ sessions[op[p].key] = NoId
              /\ ret[p].id = NoId
              /\ ~ret[p].ok
        /\ spc[p] \in {"goc_save", "goc_rollback"} =>
              \A q \in Procs \ {p} : spc[q] \in {"idle", "lock"}

C18_Witness ==
    \E p, q \in Procs :
        /\ p # q
        /\ Returning(p, "GetOrCreate")
        /\ ret[p].err = "SaveErr"
        /\ spc[q] = "lock"
        /\ op[q].name = "Get"
        /\ op[q].key = op[p].key

\* C19: GetOrCreate is idempotent when persistence succeeds: a call for a key
\* that has an entry returns that id with created=false, changes nothing and
\* writes nothing; a call for a key without entry returns created=true after
\* exactly one write, which put the whole map with the new entry in the file.
C19_GetOrCreateIdempotent ==
    \A p \in Procs :
        (Returning(p, "GetOrCreate") /\ ret[p].err = "nil") =>
            IF pre[p][op[p].key] # NoId
              THEN /\ ret[p].id = pre[p][op[p].key]
                   /\ ~ret[p].ok
                   /\ wr[p] = 0
                   /\ sessions = pre[p]
              ELSE /\ ret[p].ok
                   /\ ret[p].id # NoId
                   /\ wr[p] = 1
                   /\ sessions = [pre[p] EXCEPT ![op[p].key] = ret[p].id]
                   /\ disk = FileOf(sessions)

C19_Witness ==
    \E p \in Procs :
        /\ Returning(p, "GetOrCreate")
        /\ ret[p].err = "nil"
        /\ ~ret[p].ok
        /\ ret[p].id # NoId
        /\ ret[p].id = pre[p][op[p].key]
        /\ wr[p] = 0

\* C20: the id of an existing entry never changes and the entry never goes
\* away except by Delete of its key (or by GetOrCreate taking back an entry it
\* could not save): entries are created or deleted, never overwritten.
C20_IdNeverChanges ==
    [][\A k \in Keys :
         (sessions[k] # NoId /\ sessions'[k] # sessions[k]) =>
             \E p \in Procs :
                 /\ mu = p
                 /\ op[p].key = k
                 /\ spc[p] \in {"del_delete", "goc_rollback"}]_vars

\* C21: whenever Set or Delete returns success, the sessions file holds the
\* Store's in-memory mapping (a Load of the file gives that mapping),
\* whatever calls were made on the Store before.
C21_SuccessMeansPersisted ==
    \A p \in Procs :
        (spc[p] = "unlock" /\ op[p].name \in {"Set", "Delete"} /\ ret[p].err = "nil") =>
            LoadOf(disk) = LoadedStore(sessions, FALSE)

\* ------------------------------------------- goroutines racing on one key
\* every goroutine makes one call: GetOrCreate(k) for a key k without entry,
\* or a Get, Set or Delete of the other key
InitRace ==
    /\ PtyInit
    /\ input = <<>>
    /\ optDetachKey = 0
    /\ ~stdinHasFd
    /\ ~stdoutIsFile
    /\ StoreInit
    /\ PureIdle
    /\ CallerIdle
    /\ ExtraIdle
    /\ log = [p \in Procs |-> <<>>]
    /\ loaded = NoLoad
    /\ \E k \in Keys :
         /\ sessions[k] = NoId
         /\ todo \in [Procs -> {<<o>> : o \in {c \in StoreOps :
                                    \/ c.name = "GetOrCreate" /\ c.key = k
                                    \/ c.name # "GetOrCreate" /\ c.key # k}}]

NextRace ==
    \E p \in Procs :
        \/ CallNext(p) \/ Lock(p) \/ UnlockLog(p)
        \/ GetRead(p)
        \/ GocCheck(p) \/ GocUUID(p) \/ GocInsert(p) \/ GocSave(p) \/ GocRollback(p)
        \/ SetInsert(p) \/ SetSave(p)
        \/ DelCheck(p) \/ DelDelete(p) \/ DelSave(p)

SpecRace == InitRace /\ [][NextRace]_vars

\* every goroutine of the test program has returned from all its calls
AllReturned == \A p \in Procs : todo[p] = <<>> /\ spc[p] = "idle"

\* every call the test program made returned without error
AllSucceeded ==
    \A p \in Procs : \A i \in 1..Len(log[p]) : log[p][i].ret.err = "nil"

\* the goroutines whose call was GetOrCreate(k)
Racers(k) ==
    {p \in Procs : /\ log[p] # <<>>
                   /\ log[p][1].op = [name |-> "GetOrCreate", key |-> k, id |-> NoId]}

\* goroutine p is inside a method body: it holds s.mu
InBody(p) == spc[p] \notin {"idle", "lock"}

\* C22: when any number of goroutines call GetOrCreate(k) at the same time
\* for a key without entry and every write succeeds, all of them return the
\* same id, exactly one returns created=true and exactly one of them writes
\* the file, once; a goroutine inside a method body holds the mutex, so no
\* two bodies (of any methods) overlap.
C22_CallsSerialized ==
    /\ \A p, q \in Procs : (InBody(p) /\ InBody(q)) => (p = q /\ mu = p)
    /\ (AllReturned /\ AllSucceeded) =>
         \A k \in Keys :
            Racers(k) # {} =>
               /\ \E u \in UUIDs : \A p \in Racers(k) : log[p][1].ret.id = u
               /\ Cardinality({p \in Racers(k) : log[p][1].ret.ok}) = 1
               /\ Cardinality({p \in Racers(k) : log[p][1].wr = 1}) = 1
               /\ \A p \in Racers(k) : log[p][1].wr <= 1

C22_Witness ==
    /\ AllReturned
    /\ AllSucceeded
    /\ \E k \in Keys : Racers(k) = Procs

\* ------------------------------- a Store, and a later Load() of its file
\* every state the sessions file can be in when Load() runs
AllFiles ==
    {NoFile, UnreadableFile, CorruptFile, NotObjectFile, NullFile}
    \cup {FileOf(m) : m \in Mappings}

\* Load() has returned a Store with a map: the file was missing or held a
\* JSON object
Usable(f) == LoadOf(f).kind = "store" /\ ~LoadOf(f).nilmap

\* a test program: where Load() gave a usable Store, goroutine 1 makes up to
\* MaxCalls calls on it; after them the program calls Load() once more
InitLoad ==
    /\ PtyInit
    /\ input = <<>>
    /\ optDetachKey = 0
    /\ ~stdinHasFd
    /\ ~stdoutIsFile
    /\ PureIdle
    /\ CallerIdle
    /\ ExtraIdle
    /\ ProcsIdle
    /\ disk \in AllFiles
    /\ sessions = LoadOf(disk).map
    /\ \E calls \in SeqsUpTo(StoreOps, MaxCalls) :
         todo = [p \in Procs |-> IF p = 1 /\ Usable(disk) THEN calls ELSE <<>>]
    /\ log = [p \in Procs |-> <<>>]
    /\ loaded = NoLoad

\* store, err := sessions.Load(), after the calls on the first Store
Load ==
    /\ AllReturned
    /\ loaded = NoLoad
    /\ loaded' = LoadOf(disk)
    /\ UNCHANGED <<storeVars, todo, log, ptyVars, pureVars, callerVars, extraVars>>

NextLoad ==
    \/ \E p \in Procs :
          \/ CallNext(p) \/ Lock(p) \/ UnlockLog(p)
          \/ GetRead(p)
          \/ GocCheck(p) \/ GocUUID(p) \/ GocInsert(p) \/ GocSave(p) \/ GocRollback(p)
          \/ SetInsert(p) \/ SetSave(p)
          \/ DelCheck(p) \/ DelDelete(p) \/ DelSave(p)
    \/ Load

SpecLoad == InitLoad /\ [][NextLoad]_vars

\* C23: round trip: after calls on a Store that all returned success, a
\* Load() of the same file returns a Store whose mapping is the mapping the
\* first Store holds and persisted.
C23_RoundTrip ==
    (loaded # NoLoad /\ AllSucceeded /\ \E p \in Procs : log[p] # <<>>) =>
        loaded = LoadedStore(sessions, FALSE)

C23_Witness ==
    /\ loaded.kind = "store"
    /\ AllSucceeded
    /\ Len(log[1]) = 2
    /\ \A i \in 1..2 : log[1][i].wr = 1
    /\ \A k \in Keys : sessions[k] # NoId
    /\ loaded.map = sessions

\* C25: Load returns an empty Store and no error when the sessions file does
\* not exist; when the file is there but cannot be read, or its content does
\* not parse, Load returns an error and no Store.
C25_LoadMissingOrError ==
    loaded # NoLoad =>
        /\ disk.kind = "absent" => loaded = LoadedStore(EmptyMap, FALSE)
        /\ disk.kind \in {"unreadable", "corrupt", "notobject"} =>
              /\ loaded.kind = "error"
              /\ loaded.err \in {"read sessions", "parse sessions"}
        /\ loaded.kind = "error" => disk.kind \notin {"absent", "file"}

C25_Witness ==
    /\ loaded.kind = "error"
    /\ loaded.err = "parse sessions"
    /\ disk = CorruptFile
    /\ log[1] # <<>>

\* ------------------------------- create, find, delete, create again
\* the calls of the scenario on key k, in order
ScenarioCalls(k) ==
    << [name |-> "GetOrCreate", key |-> k, id |-> NoId],
       [name |-> "GetOrCreate", key |-> k, id |-> NoId],
       [name |-> "Delete", key |-> k, id |-> NoId],
       [name |-> "Get", key |-> k, id |-> NoId],
       [name |-> "GetOrCreate", key |-> k, id |-> NoId] >>

\* goroutine 1 makes the calls of the scenario on a key without entry
InitScenario ==
    /\ PtyInit
    /\ input = <<>>
    /\ optDetachKey = 0
    /\ ~stdinHasFd
    /\ ~stdoutIsFile
    /\ StoreInit
    /\ PureIdle
    /\ CallerIdle
    /\ ExtraIdle
    /\ log = [p \in Procs |-> <<>>]
    /\ loaded = NoLoad
    /\ \E k \in Keys :
         /\ sessions[k] = NoId
         /\ todo = [p \in Procs |-> IF p = 1 THEN ScenarioCalls(k) ELSE <<>>]

NextScenario ==
    \E p \in Procs :
        \/ CallNext(p) \/ Lock(p) \/ UnlockLog(p)
        \/ GetRead(p)
        \/ GocCheck(p) \/ GocUUID(p) \/ GocInsert(p) \/ GocSave(p) \/ GocRollback(p)
        \/ DelCheck(p) \/ DelDelete(p) \/ DelSave(p)

SpecScenario == InitScenario /\ [][NextScenario]_vars

\* the scenario has been run to its end and no call failed
ScenarioDone == AllReturned /\ AllSucceeded /\ Len(log[1]) = 5

\* what the calls of the scenario return, up to the id of the last call
ScenarioResults ==
    /\ log[1][1].ret.ok
    /\ log[1][1].ret.id \in UUIDs
    /\ log[1][2].ret.id = log[1][1].ret.id
    /\ ~log[1][2].ret.ok
    /\ log[1][4].ret.id = NoId
    /\ ~log[1][4].ret.ok
    /\ log[1][5].ret.ok
    /\ log[1][5].ret.id \in UUIDs

\* C24 as stated: for a key without entry GetOrCreate returns a new id U1
\* with created=true, a second GetOrCreate returns U1 with created=false,
\* after Delete a Get reports not-found and the next GetOrCreate returns
\* created=true with an id U2 different from U1.
C24_SecondIdDiffers ==
    ScenarioDone =>
        /\ ScenarioResults
        /\ log[1][5].ret.id # log[1][1].ret.id

\* C24: for a key without entry GetOrCreate returns a new id U1 with
\* created=true, a second GetOrCreate returns U1 with created=false and
\* writes nothing, after Delete a Get reports not-found and the next
\* GetOrCreate returns created=true with an id U2 it generated and wrote in
\* that call; nothing compares U2 with the ids the key had before.
C24_SecondIdIsGenerated ==
    ScenarioDone =>
        /\ ScenarioResults
        /\ log[1][1].wr = 1
        /\ log[1][2].wr = 0
        /\ log[1][3].wr = 1
        /\ log[1][5].wr = 1
        /\ sessions[log[1][5].op.key] = log[1][5].ret.id
        /\ disk = FileOf(sessions)

C24_Witness ==
    /\ ScenarioDone
    /\ log[1][5].ret.id # log[1][1].ret.id
    /\ log[1][5].ret.ok

\* C27: when the entropy source fails inside GetOrCreate(k), the call returns
\* the error with no id, nothing of the map or the file has changed during
\* the call, and its return leaves the Store as it was before the call
\* (unlocked, same map, same file), so later calls behave as if it had not
\* been made.
C27_EntropyFailureHarmless ==
    /\ [](\A p \in Procs :
            (spc[p] = "unlock" /\ ret[p].err = "EntropyErr") =>
                /\ op[p].name = "GetOrCreate"
                /\ ret[p].id = NoId
                /\ ~ret[p].ok
                /\ wr[p] = 0
                /\ sessions = pre[p]
                /\ mu = p)
    /\ [][\A p \in Procs :
            /\ (spc[p] = "lock" /\ op[p].name = "GetOrCreate" /\ spc'[p] # "lock") =>
                  UNCHANGED <<sessions, disk>>
            /\ (spc[p] \in {"goc_check", "goc_uuid"} /\ spc'[p] \in {"goc_uuid", "unlock"}) =>
                  UNCHANGED <<sessions, disk>>
            /\ (spc[p] = "unlock" /\ ret[p].err = "EntropyErr" /\ spc'[p] = "idle") =>
                  /\ UNCHANGED <<sessions, disk>>
                  /\ mu' = 0
                  /\ op'[p] = NoOp /\ newId'[p] = NoId /\ ret'[p] = NoRet]_vars

C27_Witness ==
    \E p, q \in Procs :
        /\ p # q
        /\ Returning(p, "GetOrCreate")
        /\ ret[p].err = "EntropyErr"
        /\ spc[q] = "lock"
        /\ op[q].name = "GetOrCreate"
        /\ op[q].key = op[p].key
        /\ disk.kind = "file"

\* =========================================================================
\* Part 3: newUUID
\* =========================================================================
\* the digits fmt's %x verb writes
HexDigits == <<"0", "1", "2", "3", "4", "5", "6", "7",
               "8", "9", "a", "b", "c", "d", "e", "f">>

\* fmt.Sprintf("%x", bs) of a byte slice: two digits for every byte, the high
\* nibble first
HexSlice(bs) ==
    [i \in 1..(2 * Len(bs)) |->
        IF i % 2 = 1
          THEN HexDigits[(bs[(i + 1) \div 2] \div 16) + 1]
          ELSE HexDigits[(bs[i \div 2] % 16) + 1]]

\* (b[6] & 0x0f) | 0x40: the low nibble of the byte under the high nibble 4
V4Version(x) ==
    (x % 16) + 64

\* a variant byte that is left as the entropy source gave it
V4Variant_NoMask(x) ==
    x

\* (b[8] & 0x3f) | 0x80: the low six bits of the byte under the bits 10
V4Variant(x) ==
    (x % 64) + 128

\* newUUID after rand.Read has filled b (b[6] and b[8] are the 7th and 9th
\* element here)
newUUID(b) ==
    LET v == [b EXCEPT ![7] = V4Version(b[7]), ![9] = V4Variant(b[9])]
    IN  HexSlice(SubSeq(v, 1, 4)) \o <<"-">> \o
        HexSlice(SubSeq(v, 5, 6)) \o <<"-">> \o
        HexSlice(SubSeq(v, 7, 8)) \o <<"-">> \o
        HexSlice(SubSeq(v, 9, 10)) \o <<"-">> \o
        HexSlice(SubSeq(v, 11, UUIDBytes))

\* what rand.Read can put into b: every value of b[6], each with the values
\* of b[8] that have the same low nibble, the other bytes following from them
RandomInputs ==
    UNION {{[i \in 1..UUIDBytes |->
                IF i = 7 THEN x ELSE IF i = 9 THEN y
                ELSE (x + 16 * y + 37 * i) % (MaxByte + 1)] :
              y \in {z \in 0..MaxByte : z % 16 = x % 16}} :
           x \in 0..MaxByte}

InitUUID ==
    /\ PtyInit
    /\ input = <<>>
    /\ optDetachKey = 0
    /\ ~stdinHasFd
    /\ ~stdoutIsFile
    /\ StoreIdle
    /\ HarnessIdle
    /\ CallerIdle
    /\ ExtraIdle
    /\ SandboxIdle
    /\ rnd \in RandomInputs
    /\ uuidOut = NoUUID

\* newUUID returns the formatted id
NewUUID ==
    /\ uuidOut = NoUUID
    /\ uuidOut' = [id |-> newUUID(rnd), err |-> "nil"]
    /\ UNCHANGED <<rnd, sbInput, sbParsed, sbList, sbResult,
                   ptyVars, storeVars, harnessVars, callerVars, extraVars>>

\* rand.Read fails: return "", fmt.Errorf("generate uuid: %w", err)
NewUUIDFail ==
    /\ uuidOut = NoUUID
    /\ uuidOut' = [id |-> <<>>, err |-> "generate uuid"]
    /\ UNCHANGED <<rnd, sbInput, sbParsed, sbList, sbResult,
                   ptyVars, storeVars, harnessVars, callerVars, extraVars>>

NextUUID == NewUUID \/ NewUUIDFail

SpecUUID == InitUUID /\ [][NextUUID]_vars

\* value of a hex digit
HexVal(c) == (CHOOSE i \in 1..16 : HexDigits[i] = c) - 1

\* where the two digits of byte i (counted from 1) start in the id
DigitPos(i) ==
    2 * i - 1 + (IF i <= 4 THEN 0 ELSE IF i <= 6 THEN 1
                 ELSE IF i <= 8 THEN 2 ELSE IF i <= 10 THEN 3 ELSE 4)

\* the byte read back from the id
ByteAt(s, i) == 16 * HexVal(s[DigitPos(i)]) + HexVal(s[DigitPos(i) + 1])

\* C26: for every 16 random bytes the id is 36 characters long, has hyphens
\* at positions 9, 14, 19 and 24 and lowercase hex digits elsewhere, has '4'
\* as 15th character and one of 8, 9, a, b as 20th, and holds every other bit
\* of the random bytes unchanged.
C26_UUIDv4Format ==
    uuidOut.err = "nil" =>
        LET s == uuidOut.id
        IN  /\ Len(s) = 36
            /\ \A i \in 1..36 :
                  IF i \in {9, 14, 19, 24}
                    THEN s[i] = "-"
                    ELSE \E d \in 1..16 : s[i] = HexDigits[d]
            /\ s[15] = "4"
            /\ s[20] \in {"8", "9", "a", "b"}
            /\ \A i \in (1..UUIDBytes) \ {7, 9} : ByteAt(s, i) = rnd[i]
            /\ ByteAt(s, 7) % 16 = rnd[7] % 16
            /\ ByteAt(s, 9) % 64 = rnd[9] % 64

C26_Witness ==
    /\ uuidOut.err = "nil"
    /\ rnd[7] = 255
    /\ rnd[9] = 255
    /\ uuidOut.id[15] = "4"
    /\ uuidOut.id[16] = "f"
    /\ uuidOut.id[20] = "b"
    /\ uuidOut.id[21] = "f"

\* =========================================================================
\* Part 4: the session view's executor and its exit callback
\* =========================================================================
\* errors with which runAppWithSession returns before an app is run
EarlyErrors ==
    {"session store unavailable", "failed to initialize",
     "failed to load config", "failed to load app index"}

\* a callback that reports every error, the detach sentinel too, as a failure
SessionExitMsg_NoSentinel(e) ==
    IF e = "nil"
      THEN [type |-> "StatusMsg", text |-> "Session ended", err |-> "nil"]
      ELSE [type |-> "ErrorMsg", text |-> "", err |-> e]

\* the callback given to tea.Exec: err == nil, err == claude.ErrDetached, else
SessionExitMsg(e) ==
    IF e = "nil"
      THEN [type |-> "StatusMsg", text |-> "Session ended", err |-> "nil"]
      ELSE IF e = "ErrDetached"
        THEN [type |-> "SessionSuspendedMsg",
              text |-> "Session saved. Resume anytime from My Apps.",
              err |-> "nil"]
        ELSE [type |-> "ErrorMsg", text |-> "", err |-> e]

\* runAppWithSession returns an error of its own; RunWithPTY is not called
RunAppFail ==
    /\ pc = "start"
    /\ execErr = "none"
    /\ \E e \in EarlyErrors : execErr' = e
    /\ pc' = "notcalled"
    /\ UNCHANGED <<result, resolved, defers, err, childVars, waitVars, outVars,
                   termVars, sizeVars, inVars, detVars, ptmxOpen, crCanceled,
                   optVars, storeVars, harnessVars, pureVars, exitMsg, extraVars>>

\* sessionExec.Run returns what the run of the app returned: the result of
\* RunWithPTY, handed up unchanged
ExecReturn ==
    /\ pc = "returned"
    /\ execErr = "none"
    /\ execErr' = result
    /\ UNCHANGED <<ptyVars, storeVars, harnessVars, pureVars, exitMsg, extraVars>>

\* tea.Exec calls the callback with the executor's result
SessionCallback ==
    /\ execErr # "none"
    /\ exitMsg = NoMsg
    /\ exitMsg' = SessionExitMsg(execErr)
    /\ UNCHANGED <<ptyVars, storeVars, harnessVars, pureVars, execErr, extraVars>>

NextSession == Next \/ RunAppFail \/ ExecReturn \/ SessionCallback

\* a session started from the session view, for input streams of at most one
\* byte and the default detach key
SpecSession == InitResize /\ [][NextSession]_vars

\* C28: the callback classifies the executor's result by identity: nil gives
\* the status message "Session ended", the ErrDetached sentinel gives a
\* SessionSuspendedMsg ("Session saved. Resume anytime from My Apps."), every
\* other error gives an ErrorMsg carrying it; a run resolved by detach is
\* never presented as ErrorMsg.
C28_ExitClassifiedByIdentity ==
    exitMsg # NoMsg =>
        /\ execErr = "nil" =>
              exitMsg.type = "StatusMsg" /\ exitMsg.text = "Session ended"
        /\ execErr = "ErrDetached" =>
              /\ exitMsg.type = "SessionSuspendedMsg"
              /\ exitMsg.text = "Session saved. Resume anytime from My Apps."
        /\ execErr \notin {"nil", "ErrDetached"} =>
              exitMsg.type = "ErrorMsg" /\ exitMsg.err = execErr
        /\ resolved = "detach" => exitMsg.type = "SessionSuspendedMsg"

C28_Witness ==
    /\ exitMsg # NoMsg
    /\ exitMsg.type = "SessionSuspendedMsg"
    /\ resolved = "detach"
    /\ detachCase = "timeout"
    /\ waitVal = "ExitError"

\* =========================================================================
\* Part 5: the --sandbox flag
\* =========================================================================
\* what a flag value is made of: the comma, a white-space character, the
\* three words of validValues and some other text
Symbols == {",", " ", "default", "fs", "net", "x"}

\* validValues := map[string]bool{"default": true, "fs": true, "net": true}
ValidValues == {"default", "fs", "net"}

\* position of the j-th comma of s; 0 before the first token, Len(s) + 1
\* after the last
CommaAt(s, j) ==
    LET commas == {i \in 1..Len(s) : s[i] = ","}
    IN  IF j = 0 THEN 0
        ELSE IF j > Cardinality(commas) THEN Len(s) + 1
        ELSE CHOOSE i \in commas : Cardinality({c \in commas : c <= i}) = j

\* strings.Split(s, ","): the pieces between the commas, one more than there
\* are commas
Split(s) ==
    LET n == Cardinality({i \in 1..Len(s) : s[i] = ","})
    IN  [j \in 1..(n + 1) |-> SubSeq(s, CommaAt(s, j - 1) + 1, CommaAt(s, j) - 1)]

\* a TrimSpace that returns its argument
TrimSpace_Nothing(t) ==
    t

\* strings.TrimSpace(t): t without its leading and trailing white space
TrimSpace(t) ==
    LET solid == {i \in 1..Len(t) : t[i] # " "}
    IN  IF solid = {}
          THEN <<>>
          ELSE SubSeq(t, CHOOSE i \in solid : \A j \in solid : i <= j,
                         CHOOSE i \in solid : \A j \in solid : j <= i)

\* the elements of a sequence
Range(s) == {s[i] : i \in 1..Len(s)}

\* the loop of parseSandboxValues from token i on; values holds what was
\* appended so far (seen is the set of its elements)
RECURSIVE ParseLoop(_, _, _)
ParseLoop(tokens, i, values) ==
    IF i > Len(tokens)
      THEN [values |-> values, err |-> "nil"]
      ELSE LET v == TrimSpace(tokens[i])
           IN  IF v = <<>>
                 THEN ParseLoop(tokens, i + 1, values)
                 ELSE IF ~(Len(v) = 1 /\ v[1] \in ValidValues)
                   THEN [values |-> <<>>, err |-> "invalid sandbox value"]
                   ELSE IF v[1] \in Range(values)
                     THEN ParseLoop(tokens, i + 1, values)
                     ELSE ParseLoop(tokens, i + 1, Append(values, v[1]))

\* parseSandboxValues(input); a nil slice is the empty sequence
parseSandboxValues(flag) ==
    IF flag = <<>>
      THEN [values |-> <<>>, err |-> "nil"]
      ELSE ParseLoop(Split(flag), 1, <<>>)

\* a transformSandboxValues that does not add fs for default
ExpandDefault_Never(v, out) ==
    out

\* if v == "default" { if !seen["fs"] { seen["fs"] = true; result = append(result, "fs") } }
ExpandDefault(v, out) ==
    IF v = "default" /\ "fs" \notin Range(out)
      THEN Append(out, "fs")
      ELSE out

\* the loop of transformSandboxValues from element i on
RECURSIVE TransformLoop(_, _, _)
TransformLoop(values, i, out) ==
    IF i > Len(values)
      THEN out
      ELSE LET r == ExpandDefault(values[i], out)
           IN  IF values[i] \in Range(r)
                 THEN TransformLoop(values, i + 1, r)
                 ELSE TransformLoop(values, i + 1, Append(r, values[i]))

\* transformSandboxValues(values); a nil slice is the empty sequence
transformSandboxValues(values) ==
    IF Len(values) = 0
      THEN <<>>
      ELSE TransformLoop(values, 1, <<>>)

\* the run command is given a --sandbox flag
InitParse ==
    /\ PtyInit
    /\ input = <<>>
    /\ optDetachKey = 0
    /\ ~stdinHasFd
    /\ ~stdoutIsFile
    /\ StoreIdle
    /\ HarnessIdle
    /\ CallerIdle
    /\ ExtraIdle
    /\ UUIDIdle
    /\ sbInput \in SeqsUpTo(Symbols, MaxSyms)
    /\ sbParsed = NoValues
    /\ sbList = <<>>
    /\ sbResult = NoValues

\* sandboxValues, err := parseSandboxValues(sandboxFlag)
ParseFlag ==
    /\ sbParsed = NoValues
    /\ sbParsed' = parseSandboxValues(sbInput)
    /\ UNCHANGED <<sbInput, sbList, sbResult, rnd, uuidOut,
                   ptyVars, storeVars, harnessVars, callerVars, extraVars>>

\* sandboxValues = transformSandboxValues(sandboxValues)
TransformParsed ==
    /\ sbParsed.err = "nil"
    /\ sbResult = NoValues
    /\ sbList' = sbParsed.values
    /\ sbResult' = [values |-> transformSandboxValues(sbParsed.values), err |-> "nil"]
    /\ UNCHANGED <<sbInput, sbParsed, rnd, uuidOut,
                   ptyVars, storeVars, harnessVars, callerVars, extraVars>>

NextParse == ParseFlag \/ TransformParsed

SpecParse == InitParse /\ [][NextParse]_vars

\* transformSandboxValues is given any list of valid values
InitTransform ==
    /\ PtyInit
    /\ input = <<>>
    /\ optDetachKey = 0
    /\ ~stdinHasFd
    /\ ~stdoutIsFile
    /\ StoreIdle
    /\ HarnessIdle
    /\ CallerIdle
    /\ ExtraIdle
    /\ UUIDIdle
    /\ sbInput = <<>>
    /\ sbParsed = NoValues
    /\ sbList \in SeqsUpTo(ValidValues, MaxVals)
    /\ sbResult = NoValues

\* transformSandboxValues(values)
TransformList ==
    /\ sbResult = NoValues
    /\ sbResult' = [values |-> transformSandboxValues(sbList), err |-> "nil"]
    /\ UNCHANGED <<sbInput, sbParsed, sbList, rnd, uuidOut,
                   ptyVars, storeVars, harnessVars, callerVars, extraVars>>

NextTransform == TransformList

SpecTransform == InitTransform /\ [][NextTransform]_vars

\* ------------------------------------------------ claims: the --sandbox flag
\* a symbol that is text, not a comma or white space
IsWord(c) == c \notin {",", " "}

\* the sequence s without the elements that occurred before
FirstOccurrences(s) ==
    LET keep == {i \in 1..Len(s) : \A j \in 1..(i - 1) : s[j] # s[i]}
    IN  [k \in 1..Cardinality(keep) |->
            s[CHOOSE i \in keep : Cardinality({j \in keep : j <= i}) = k]]

\* some token of the flag value is not one of the three words: it holds other
\* text, or two pieces of text with no comma between them
BadFlag(s) ==
    \/ \E i \in 1..Len(s) : IsWord(s[i]) /\ s[i] \notin {"default", "fs", "net"}
    \/ \E i, j \in 1..Len(s) :
          /\ i < j
          /\ IsWord(s[i])
          /\ IsWord(s[j])
          /\ \A k \in i..j : s[k] # ","

\* C29: parseSandboxValues: when every non-empty trimmed token of the
\* comma-separated flag value is one of default, fs, net, the result is these
\* tokens in the order of their first occurrence, without duplicates and
\* empty tokens (nil for the empty string) and no error; when some token is
\* not one of the three, the result is an error and no values, whatever the
\* other tokens are.
C29_ParseSandboxValues ==
    sbParsed # NoValues =>
        IF BadFlag(sbInput)
          THEN sbParsed.err # "nil" /\ sbParsed.values = <<>>
          ELSE /\ sbParsed.err = "nil"
               /\ sbParsed.values = FirstOccurrences(SelectSeq(sbInput, IsWord))

C29_Witness ==
    /\ sbInput = <<"fs", ",", " ", "fs">>
    /\ sbParsed = [values |-> <<"fs">>, err |-> "nil"]

\* first position of v in the list
FirstAt(list, v) ==
    CHOOSE i \in 1..Len(list) : list[i] = v /\ \A j \in 1..(i - 1) : list[j] # v

\* place of v in the result: that of its first occurrence in the list, but
\* just before default for an fs that the list does not hold before default
PlaceOf(list, v) ==
    IF /\ v = "fs"
       /\ "default" \in Range(list)
       /\ ("fs" \notin Range(list) \/ FirstAt(list, "default") < FirstAt(list, "fs"))
      THEN 2 * FirstAt(list, "default") - 1
      ELSE 2 * FirstAt(list, v)

\* C30: transformSandboxValues: for any list over default, fs, net the
\* result holds the values of the list, and fs when the list holds default,
\* each once; the values are in the order of their first occurrence in the
\* list, with fs immediately before default unless fs occurred earlier; the
\* result is nil for a nil or empty list.
C30_TransformSandboxValues ==
    sbResult # NoValues =>
        LET r == sbResult.values
        IN  /\ sbResult.err = "nil"
            /\ Range(r) = Range(sbList) \cup
                             (IF "default" \in Range(sbList) THEN {"fs"} ELSE {})
            /\ \A i, j \in 1..Len(r) :
                  i < j => r[i] # r[j] /\ PlaceOf(sbList, r[i]) < PlaceOf(sbList, r[j])
            /\ sbList = <<>> => r = <<>>

C30_Witness ==
    /\ sbList = <<"default", "fs", "net", "default">>
    /\ sbResult.values = <<"fs", "default", "net">>

\* =====================================================================
\* Part 6: writeSandboxSettings (cmd/run.go)
\* =====================================================================
\* a JSON number decoded into interface{} is a float64; encoding/json writes
\* it back as the nearest float64 in decimal
Float64(n) ==
    IF n = "9007199254740993" THEN "9007199254740992" ELSE n

\* a value after json.Unmarshal into map[string]interface{} and
\* json.MarshalIndent of that map
ViaInterface(v) ==
    IF v.type = "number" THEN [v EXCEPT !.val = Float64(v.val)] ELSE v

\* json.Unmarshal(data, &settings) of an object into the empty map
UnmarshalSettings(obj) ==
    [keys |-> [k \in OtherKeys |-> ViaInterface(obj.keys[k])],
     sandbox |-> obj.sandbox]

\* the map settings before the sandbox key is assigned: the empty map when
\* the file could not be read, whatever the reason
SettingsRead(f) ==
    IF f.kind = "object" THEN UnmarshalSettings(f.obj) ELSE EmptySettings

\* filepath.Abs(appPath), or appPath itself if that fails
AbsPaths == {"/home/u/app", "app"}

\* sandboxConfig as built from the values
SandboxConfig(values, absPath) ==
    LET hasFS  == "fs" \in Range(values)
        hasNet == "net" \in Range(values)
    IN  [present |-> TRUE, enabled |-> TRUE,
         hasDirs |-> hasFS, dirs |-> IF hasFS THEN <<absPath>> ELSE <<>>,
         hasDomains |-> hasNet, domains |-> <<>>]

WsCalled == wsRet = "none"

\* len(sandboxValues) == 0: return nil
WsNothing ==
    /\ WsCalled
    /\ sandboxValues = <<>>
    /\ wsRet' = "nil"
    /\ UNCHANGED <<settingsFile, settingsPre, sandboxValues>>
    /\ UNCHANGED settingsFixed

\* os.MkdirAll fails
WsMkdirFail ==
    /\ WsCalled
    /\ sandboxValues # <<>>
    /\ settingsFile.kind = "absent"
    /\ wsRet' = "failed to create .claude directory"
    /\ UNCHANGED <<settingsFile, settingsPre, sandboxValues>>
    /\ UNCHANGED settingsFixed

\* the file was read and json.Unmarshal rejects it
WsParseFail ==
    /\ WsCalled
    /\ sandboxValues # <<>>
    /\ settingsFile.kind = "corrupt"
    /\ wsRet' = "failed to parse existing settings.json"
    /\ UNCHANGED <<settingsFile, settingsPre, sandboxValues>>
    /\ UNCHANGED settingsFixed

\* the file holds null: Unmarshal sets the map to nil and the assignment
\* settings["sandbox"] = sandboxConfig panics
WsNilMap ==
    /\ WsCalled
    /\ sandboxValues # <<>>
    /\ settingsFile.kind = "null"
    /\ wsRet' = "panic"
    /\ UNCHANGED <<settingsFile, settingsPre, sandboxValues>>
    /\ UNCHANGED settingsFixed

\* the map is built and written
WsWrite ==
    /\ WsCalled
    /\ sandboxValues # <<>>
    /\ settingsFile.kind \in {"absent", "unreadable", "object"}
    /\ \E absPath \in AbsPaths :
         settingsFile' =
             [kind |-> IF settingsFile.kind = "unreadable" THEN "unreadable"
                       ELSE "object",
              obj  |-> [SettingsRead(settingsFile) EXCEPT
                           !.sandbox = SandboxConfig(sandboxValues, absPath)]]
    /\ wsRet' = "nil"
    /\ UNCHANGED <<settingsPre, sandboxValues>>
    /\ UNCHANGED settingsFixed

\* os.WriteFile fails; it may have truncated the file
WsWriteFail ==
    /\ WsCalled
    /\ sandboxValues # <<>>
    /\ settingsFile.kind \in {"absent", "unreadable", "object"}
    /\ settingsFile' \in {settingsFile, [kind |-> "corrupt", obj |-> EmptySettings]}
    /\ wsRet' = "failed to write settings.json"
    /\ UNCHANGED <<settingsPre, sandboxValues>>
    /\ UNCHANGED settingsFixed

InitSettings ==
    /\ PtyInit
    /\ input = <<>>
    /\ optDetachKey = 0
    /\ ~stdinHasFd
    /\ ~stdoutIsFile
    /\ StoreIdle
    /\ HarnessIdle
    /\ PureIdle
    /\ CallerIdle
    /\ DurationsZero
    /\ OneStore
    /\ TuiIdle
    /\ settingsFile \in SettingsFiles
    /\ settingsPre = settingsFile
    /\ sandboxValues \in SeqsUpTo(ValidValues, MaxVals)
    /\ wsRet = "none"

NextSettings ==
    \/ WsNothing
    \/ WsMkdirFail
    \/ WsParseFail
    \/ WsNilMap
    \/ WsWrite
    \/ WsWriteFail

SpecSettings == InitSettings /\ [][NextSettings]_vars

\* ------------------------------------------ claims: writeSandboxSettings
\* C31: with an empty value list the settings file is not created or changed;
\* when writeSandboxSettings returns nil for a non-empty list, settings.json
\* holds every top-level key other than sandbox that it held before, with
\* the same value, and a sandbox object with enabled = true, with
\* allowedDirectories (one entry) iff fs was requested and with
\* allowedDomains (an array) iff net was requested.
C31_SandboxSettingsWritten ==
    /\ (wsRet # "none" /\ sandboxValues = <<>>) => settingsFile = settingsPre
    /\ (wsRet = "nil" /\ sandboxValues # <<>>) =>
          /\ \A k \in OtherKeys :
                settingsPre.obj.keys[k] # NoValue =>
                    settingsFile.obj.keys[k] = settingsPre.obj.keys[k]
          /\ settingsFile.obj.sandbox.present
          /\ settingsFile.obj.sandbox.enabled
          /\ settingsFile.obj.sandbox.hasDirs <=> "fs" \in Range(sandboxValues)
          /\ settingsFile.obj.sandbox.hasDirs =>
                Len(settingsFile.obj.sandbox.dirs) = 1
          /\ settingsFile.obj.sandbox.hasDomains <=> "net" \in Range(sandboxValues)

\* ------------------------------------- claims: what resolves RunWithPTY
\* the child has terminated and the input relay has not yet seen a detach
\* byte or an error: whatever it sees, it sees after the exit
ExitedBeforeInputEvent ==
    /\ child = "exited"
    /\ inPc \in {"idle", "read"}
    /\ inputErr = <<>>

\* what cmd.Wait() returns for the child's exit status
ExitResult == IF exitStatus = 0 THEN "nil" ELSE "ExitError"

\* C32: whichever of process exit, input-relay error and detach signal occurs
\* first resolves the run: once the child has exited before the input relay
\* has seen a detach byte or an error, a run that is resolved by exit, input
\* error or detach returns the child's exit result, never ErrDetached or the
\* input error.
C32_FirstEventResolves ==
    [](ExitedBeforeInputEvent =>
         []((pc = "returned" /\ resolved \in {"exit", "inputErr", "detach"}) =>
               (resolved = "exit" /\ result = ExitResult)))

\* =====================================================================
\* Part 7: the session options
\* =====================================================================
\* RunWithPTY with every combination of zero and non-zero options
InitOptions ==
    /\ PtyInit
    /\ stdinHasFd
    /\ ~stdoutIsFile
    /\ StoreIdle
    /\ HarnessIdle
    /\ PureIdle
    /\ CallerIdle
    /\ SettingsIdle
    /\ OneStore
    /\ TuiIdle
    /\ optInterruptDelay \in DurationOpts
    /\ optInterruptTimeout \in DurationOpts

SpecOptions == InitOptions /\ [][Next]_vars

\* the input relay takes a step on the byte b
RelayHandles(b) ==
    /\ inPc = "loop"
    /\ bufIdx <= Len(buf)
    /\ buf[bufIdx] = b
    /\ <<bufIdx, inPc>>' # <<bufIdx, inPc>>

\* C33: a zero option is replaced by its default and a non-zero option is
\* used as given: the detach signal is raised on the byte 0x0B when DetachKey
\* is 0 and on DetachKey otherwise, time.Sleep gets 50 ms when InterruptDelay
\* is 0 and InterruptDelay otherwise, time.After gets 3 s when
\* InterruptTimeout is 0 and InterruptTimeout otherwise; the byte 0x00 never
\* raises the detach signal and is handed to the PTY write.
C33_ZeroOptionsDefaulted ==
    /\ [](/\ detachCount > 0 =>
                buf[bufIdx] = IF optDetachKey = 0 THEN 11 ELSE optDetachKey
          /\ \A i \in 1..Len(sleepArg) :
                sleepArg[i] = IF optInterruptDelay = 0 THEN 50
                              ELSE optInterruptDelay
          /\ \A i \in 1..Len(afterArg) :
                afterArg[i] = IF optInterruptTimeout = 0 THEN 3000
                              ELSE optInterruptTimeout)
    /\ [][RelayHandles(0) =>
            /\ detachCount' = detachCount
            /\ \/ forwarded' = Append(forwarded, 0)
               \/ inputErr' = Append(inputErr, "WriteErr")]_vars

\* the zero options: the byte 0x00 was forwarded, the detach signal was
\* raised afterwards and the defaults were used for the sleep and the timer
C33_Witness ==
    /\ optDetachKey = 0
    /\ optInterruptDelay = 0
    /\ optInterruptTimeout = 0
    /\ forwarded = <<0>>
    /\ detachCount = 1
    /\ sleepArg = <<50>>
    /\ afterArg = <<3000>>
    /\ pc = "returned"

\* =====================================================================
\* Part 8: RunWithPTY under a fair scheduler
\* =====================================================================
\* a step of the main goroutine
MainStep ==
    \/ PtyStart \/ GoWait \/ MakeRaw \/ ResizeSetup \/ GoOutput \/ NewReader
    \/ CrKill \/ CrWait \/ GoInput
    \/ SelectWaitErr \/ ExitWaitOutput \/ SelectInputErr
    \/ Interrupt1 \/ Sleep \/ Interrupt2
    \/ DetachSelectWaitErr \/ DetachSelectTimeout \/ DetachKill \/ DetachWait
    \/ DetachOutput \/ RunDefer

\* a step of the process-wait goroutine
WaitStep == WaitReturn \/ WaitSend

\* a step of the output relay
OutStep == OutCopy \/ OutEOF \/ OutClose

\* the main goroutine, the process-wait goroutine and the output relay run
\* whenever they can, and the timer of time.After fires; the child and the
\* input relay (blocked in a read of the terminal) need not move
FairSpecRun ==
    /\ InitResize
    /\ [][Next]_vars
    /\ WF_vars(MainStep)
    /\ WF_vars(WaitStep)
    /\ WF_vars(OutStep)
    /\ WF_vars(TimerFire)

C35_SendsNeverBlock ==
    /\ [](/\ waitPc # "done" => waitErr = <<>>
          /\ inPc # "done" => inputErr = <<>>
          /\ Len(waitErr) <= WaitErrCap
          /\ Len(inputErr) <= InputErrCap)
    /\ [][/\ Len(waitErr') > Len(waitErr) => (waitPc # "done" /\ waitPc' = "done")
          /\ Len(inputErr') > Len(inputErr) => (inPc # "done" /\ inPc' = "done")
          /\ waitPc = "done" => waitPc' = "done"
          /\ inPc = "done" => inPc' = "done"]_vars

\* RunWithPTY returned the child's exit result while the value the input
\* relay sent afterwards was never received
C35_Witness ==
    /\ pc = "returned"
    /\ resolved = "exit"
    /\ waitPc = "done"
    /\ inPc = "done"
    /\ Len(inputErr) = 1

\* =====================================================================
\* Part 9: calls on whatever Store Load() returns
\* =====================================================================
\* a program that calls Load() and, if it got a Store, makes up to MaxCalls
\* calls on it from one goroutine
InitAfterLoad ==
    /\ PtyInit
    /\ input = <<>>
    /\ optDetachKey = 0
    /\ ~stdinHasFd
    /\ ~stdoutIsFile
    /\ PureIdle
    /\ CallerIdle
    /\ SettingsIdle
    /\ DurationsZero
    /\ TuiIdle
    /\ ProcsIdle
    /\ disk \in {f \in AllFiles : LoadOf(f).kind = "store"}
    /\ sessions = LoadOf(disk).map
    /\ sessionsNil = LoadOf(disk).nilmap
    /\ other = NoOther
    /\ otherLog = <<>>
    /\ \E calls \in SeqsUpTo(StoreOps, MaxCalls) :
         todo = [p \in Procs |-> IF p = 1 THEN calls ELSE <<>>]
    /\ log = [p \in Procs |-> <<>>]
    /\ loaded = NoLoad

NextAfterLoad ==
    \E p \in Procs :
       \/ CallNext(p) \/ Lock(p) \/ UnlockLog(p)
       \/ GetRead(p)
       \/ GocCheck(p) \/ GocUUID(p) \/ GocInsert(p) \/ GocSave(p) \/ GocRollback(p)
       \/ SetInsert(p) \/ SetSave(p)
       \/ DelCheck(p) \/ DelDelete(p) \/ DelSave(p)

SpecAfterLoad == InitAfterLoad /\ [][NextAfterLoad]_vars

\* C37: whatever parsing file content Load() succeeded on (null and {}
\* included), a following Get, GetOrCreate, Set or Delete on the Store ends
\* with a result or an error: no call panics.
C37_NoCallPanics ==
    \A p \in Procs : spc[p] # "panic"

\* =====================================================================
\* Part 10: two Stores on one sessions file
\* =====================================================================
\* The second Store has its own map and its own mutex and one caller. Each
\* of its calls touches the shared file at most once, in saveLocked, so a
\* call is one step.

\* other, err := sessions.Load(): the second Store reads the file as it is now
OtherLoad ==
    /\ ~other.loaded
    /\ Usable(disk)
    /\ other' = [loaded |-> TRUE, sessions |-> LoadOf(disk).map]
    /\ UNCHANGED <<sessionsNil, otherLog>>
    /\ UNCHANGED <<storeVars, otherFixed>>

\* the second Store may be called
OtherCall ==
    /\ other.loaded
    /\ Len(otherLog) < MaxOtherCalls

\* the second Store's call has returned
OtherReturn(name, k, e) ==
    otherLog' = Append(otherLog, [name |-> name, key |-> k, err |-> e])

\* saveLocked of the second Store, holding the map m: the file is written, or
\* the write fails with the file as before or truncated
OtherSave(m, ok) ==
    IF ok THEN disk' = FileOf(m) ELSE disk' \in {disk, CorruptFile}

\* other.Set(k, id)
OtherSet(k, id) ==
    /\ OtherCall
    /\ \E ok \in BOOLEAN :
         LET m == [other.sessions EXCEPT ![k] = id]
         IN  /\ other' = [other EXCEPT !.sessions = m]
             /\ OtherSave(m, ok)
             /\ OtherReturn("Set", k, IF ok THEN "nil" ELSE "write sessions")
    /\ UNCHANGED <<sessions, mu, spc, op, newId, ret, pre, wr, sessionsNil>>
    /\ UNCHANGED otherFixed

\* other.Delete(k)
OtherDelete(k) ==
    /\ OtherCall
    /\ IF other.sessions[k] = NoId
         THEN /\ OtherReturn("Delete", k, "nil")
              /\ UNCHANGED <<other, disk>>
         ELSE \E ok \in BOOLEAN :
                LET m == [other.sessions EXCEPT ![k] = NoId]
                IN  /\ other' = [other EXCEPT !.sessions = m]
                    /\ OtherSave(m, ok)
                    /\ OtherReturn("Delete", k,
                                   IF ok THEN "nil" ELSE "write sessions")
    /\ UNCHANGED <<sessions, mu, spc, op, newId, ret, pre, wr, sessionsNil>>
    /\ UNCHANGED otherFixed

\* other.GetOrCreate(k)
OtherGetOrCreate(k) ==
    /\ OtherCall
    /\ IF other.sessions[k] # NoId
         THEN /\ OtherReturn("GetOrCreate", k, "nil")
              /\ UNCHANGED <<other, disk>>
         ELSE \/ /\ OtherReturn("GetOrCreate", k, "rand")
                 /\ UNCHANGED <<other, disk>>
              \/ \E id \in UUIDs :
                   LET m == [other.sessions EXCEPT ![k] = id]
                   IN  \/ /\ other' = [other EXCEPT !.sessions = m]
                          /\ OtherSave(m, TRUE)
                          /\ OtherReturn("GetOrCreate", k, "nil")
                       \/ /\ UNCHANGED other
                          /\ OtherSave(m, FALSE)
                          /\ OtherReturn("GetOrCreate", k, "write sessions")
    /\ UNCHANGED <<sessions, mu, spc, op, newId, ret, pre, wr, sessionsNil>>
    /\ UNCHANGED otherFixed

\* one Store loaded from the file with one goroutine making up to MaxCalls
\* calls on it, and a second Store that is loaded from the same file at any
\* moment and then called up to MaxOtherCalls times
InitTwoStores ==
    /\ PtyInit
    /\ input = <<>>
    /\ optDetachKey = 0
    /\ ~stdinHasFd
    /\ ~stdoutIsFile
    /\ PureIdle
    /\ CallerIdle
    /\ ExtraIdle
    /\ StoreInit
    /\ \E calls \in SeqsUpTo(StoreOps, MaxCalls) :
         todo = [p \in Procs |-> IF p = 1 THEN calls ELSE <<>>]
    /\ log = [p \in Procs |-> <<>>]
    /\ loaded = NoLoad

NextTwoStores ==
    \/ NextAfterLoad
    \/ OtherLoad
    \/ \E k \in Keys :
          \/ \E id \in UUIDs : OtherSet(k, id)
          \/ OtherDelete(k)
          \/ OtherGetOrCreate(k)

SpecTwoStores == InitTwoStores /\ [][NextTwoStores]_vars

\* ------------------------------------------------- claims: two Stores
\* the mapping the sessions file holds
DiskMap == LoadOf(disk).map

\* the second Store returns success from a mutation of key k in this step
OtherMutates(k) ==
    /\ Len(otherLog') = Len(otherLog) + 1
    /\ otherLog'[Len(otherLog')].key = k
    /\ otherLog'[Len(otherLog')].err = "nil"
    /\ disk' # disk

\* the file holds an entry for k that a call on the first Store persisted,
\* and no call on the second Store was about k
PersistedByFirst(k) ==
    /\ \E i \in 1..Len(log[1]) :
          /\ log[1][i].op.key = k
          /\ log[1][i].ret.err = "nil"
          /\ log[1][i].wr > 0
    /\ sessions[k] # NoId
    /\ DiskMap[k] = sessions[k]
    /\ \A i \in 1..Len(otherLog) : otherLog[i].key # k

\* C36: a successful mutation of a key through the second Store leaves in
\* the file every entry of a different key that was persisted through the
\* first Store: after both Stores have mutated disjoint keys the file holds
\* the entries of both.
C36_OtherStoreKeepsEntries ==
    [][\A k \in Keys : \A j \in Keys \ {k} :
          (OtherMutates(j) /\ PersistedByFirst(k)) =>
              DiskMap'[k] = DiskMap[k]]_vars

\* =====================================================================
\* Part 11: the prefetch cache (internal/prefetch)
\* =====================================================================
\* what client.ListAppsPaginated(DefaultPageSize, "") can return
FirstPages ==
    {[apps |-> <<"a1">>, next |-> "c1", err |-> "nil"],
     [apps |-> <<"a1", "a2">>, next |-> "nil", err |-> "nil"],
     [apps |-> <<>>, next |-> "nil", err |-> "apiErr"]}

\* Cache.mu is not write-locked
CacheUnlocked == cacheMu = <<>>

\* StartBrowseAppsPrefetch: go c.fetchBrowseApps()
StartBrowseAppsPrefetch(f) ==
    /\ fetches[f].pc = "idle"
    /\ fetches' = [fetches EXCEPT ![f] = [NoFetch EXCEPT !.pc = "config",
                                                        !.epoch = resets]]
    /\ UNCHANGED <<cache, cacheMu, resetPc, resets, got, browseVars, tuiFixed>>

\* cfg, err := config.Load() fails: the goroutine goes on to store the error
FetchConfigErr(f) ==
    /\ fetches[f].pc = "config"
    /\ fetches' = [fetches EXCEPT ![f].pc = "lock", ![f].err = "cfgErr"]
    /\ UNCHANGED <<cache, cacheMu, resetPc, resets, got, browseVars, tuiFixed>>

\* result, err := client.ListAppsPaginated(DefaultPageSize, "")
FetchList(f) ==
    /\ fetches[f].pc = "config"
    /\ \E r \in FirstPages :
         fetches' = [fetches EXCEPT ![f].pc = "lock", ![f].apps = r.apps,
                                    ![f].next = r.next, ![f].err = r.err]
    /\ UNCHANGED <<cache, cacheMu, resetPc, resets, got, browseVars, tuiFixed>>

\* c.mu.Lock() in fetchBrowseApps
FetchLock(f) ==
    /\ fetches[f].pc = "lock"
    /\ CacheUnlocked
    /\ cacheMu' = <<"fetch", f>>
    /\ fetches' = [fetches EXCEPT ![f].pc = "store"]
    /\ UNCHANGED <<cache, resetPc, resets, got, browseVars, tuiFixed>>

\* the error, or the apps and the cursor, are stored; c.browseLoaded = true;
\* c.mu.Unlock()
FetchStore(f) ==
    /\ fetches[f].pc = "store"
    /\ cache' = IF fetches[f].err # "nil"
                THEN [cache EXCEPT !.browseAppsErr = fetches[f].err,
                                   !.browseLoaded = TRUE]
                ELSE [cache EXCEPT !.browseApps = fetches[f].apps,
                                   !.browseNextCursor = fetches[f].next,
                                   !.browseLoaded = TRUE]
    /\ cacheMu' = <<>>
    /\ fetches' = [fetches EXCEPT ![f].pc = "done"]
    /\ UNCHANGED <<resetPc, resets, got, browseVars, tuiFixed>>

\* Reset: c.mu.Lock()
ResetLock ==
    /\ resetPc = "idle"
    /\ resets < MaxResets
    /\ CacheUnlocked
    /\ cacheMu' = <<"reset", 0>>
    /\ resetPc' = "clear"
    /\ UNCHANGED <<cache, fetches, resets, got, browseVars, tuiFixed>>

\* Reset: the four fields are cleared; defer c.mu.Unlock(); Reset returns
ResetClear ==
    /\ resetPc = "clear"
    /\ cache' = EmptyCache
    /\ cacheMu' = <<>>
    /\ resetPc' = "idle"
    /\ resets' = resets + 1
    /\ UNCHANGED <<fetches, got, browseVars, tuiFixed>>

\* GetBrowseApps: the four fields are read under the read lock
GetBrowseApps ==
    /\ Len(got) < MaxGets
    /\ CacheUnlocked
    /\ got' = Append(got, cache)
    /\ UNCHANGED <<cache, cacheMu, fetches, resetPc, resets, browseVars, tuiFixed>>

InitCache ==
    /\ PtyInit
    /\ input = <<>>
    /\ optDetachKey = 0
    /\ ~stdinHasFd
    /\ ~stdoutIsFile
    /\ StoreIdle
    /\ HarnessIdle
    /\ PureIdle
    /\ CallerIdle
    /\ ExtraIdle

NextCache ==
    \/ \E f \in 1..MaxFetches :
          \/ StartBrowseAppsPrefetch(f)
          \/ FetchConfigErr(f) \/ FetchList(f) \/ FetchLock(f) \/ FetchStore(f)
    \/ ResetLock \/ ResetClear
    \/ GetBrowseApps

SpecCache == InitCache /\ [][NextCache]_vars

\* -------------------------------------------- claims: the prefetch cache
\* a prefetch that was started after the last Reset returned has stored its
\* result
FreshFetchDone ==
    \E f \in 1..MaxFetches : fetches[f].pc = "done" /\ fetches[f].epoch = resets

\* C38: once a Reset has returned, every GetBrowseApps returns Loaded = false
\* with no apps, no cursor and no error until a prefetch that was started
\* after that Reset has completed, also when a prefetch that was started
\* before the Reset completes after it.
C38_EmptyAfterReset ==
    [][(Len(got') > Len(got) /\ resets > 0 /\ ~FreshFetchDone) =>
          got'[Len(got')] = EmptyCache]_vars

\* =====================================================================
\* Part 12: the browse view (internal/tui/views/browse.go)
\* =====================================================================
\* what client.ListAppsPaginated(DefaultPageSize, cursor) can return for a
\* further page; a failing config.Load gives the same message as a failing call
MorePages ==
    {[apps |-> <<"b1">>, next |-> "c1", err |-> "nil"],
     [apps |-> <<"b1">>, next |-> "nil", err |-> "nil"],
     [apps |-> <<>>, next |-> "nil", err |-> "apiErr"]}

\* a command that has not delivered its message: waitForPrefetch still
\* polling ("wait"), its BrowseAppsLoadedMsg ("loaded"), or the command of
\* fetchMoreApps with the cursor and the generation it captured ("page")
WaitCmd(n) ==
    [kind |-> "wait", cursor |-> "nil", generation |-> 0, startedAt |-> n,
     apps |-> <<>>, next |-> "nil", err |-> "nil"]

PageCmd(cursor, generation, n) ==
    [kind |-> "page", cursor |-> cursor, generation |-> generation,
     startedAt |-> n, apps |-> <<>>, next |-> "nil", err |-> "nil"]

\* shouldLoadMore(); nearBottom stands for the state of the list widget: it
\* is not filtering and its index is within 3 items of the end
shouldLoadMore(b, nearBottom) ==
    /\ ~b.loadingMore
    /\ b.nextCursor # "nil"
    /\ Len(b.apps) > 0
    /\ nearBottom

\* the end of Update, with the commands rest still running: if the view
\* shows the list and shouldLoadMore(), then loadingMore = true and the
\* command of fetchMoreApps() is started (no further page is asked for once
\* the list has more than MaxApps apps)
EndOfUpdate(b, rest, nearBottom) ==
    IF /\ ~b.loading
       /\ b.err = "nil"
       /\ shouldLoadMore(b, nearBottom)
       /\ Len(b.apps) <= MaxApps
    THEN /\ browse' = [b EXCEPT !.loadingMore = TRUE]
         /\ inflight' = rest \cup {PageCmd(b.nextCursor, b.fetchGeneration, inits)}
    ELSE /\ browse' = b
         /\ inflight' = rest

\* Init(): a new generation; a loaded cache without error is shown at once,
\* otherwise the view waits for the prefetch, and a cached error is cleared
\* first and the prefetch restarted. cache.ResetBrowseApps() is called at
\* browse.go:129 and is not defined in prefetch.go; it is taken to clear the
\* browse fields under the lock, as Reset() does
BrowseInit ==
    /\ inits < MaxInits
    /\ CacheUnlocked
    /\ inits' = inits + 1
    /\ LET b == [browse EXCEPT !.fetchGeneration = browse.fetchGeneration + 1,
                               !.loadingMore = FALSE,
                               !.nextCursor = "nil"]
       IN  IF cache.browseLoaded /\ cache.browseAppsErr = "nil"
           THEN /\ browse' = [b EXCEPT !.loading = FALSE, !.err = "nil",
                                       !.apps = cache.browseApps,
                                       !.nextCursor = cache.browseNextCursor]
                /\ UNCHANGED <<inflight, cache, fetches, resets>>
           ELSE /\ browse' = [b EXCEPT !.loading = TRUE, !.apps = <<>>,
                                       !.err = "nil"]
                /\ inflight' = inflight \cup {WaitCmd(inits')}
                /\ IF cache.browseLoaded
                     THEN /\ cache' = EmptyCache
                          /\ resets' = resets + 1
                          /\ \E f \in 1..MaxFetches :
                               /\ fetches[f].pc = "idle"
                               /\ fetches' = [fetches EXCEPT ![f] =
                                     [NoFetch EXCEPT !.pc = "config",
                                                     !.epoch = resets']]
                     ELSE UNCHANGED <<cache, fetches, resets>>
    /\ UNCHANGED <<ignored, cacheMu, resetPc, got, tuiFixed>>

\* waitForPrefetch: WaitForBrowseApps returns once the cache is loaded
WaitForPrefetch(c) ==
    /\ c \in inflight
    /\ c.kind = "wait"
    /\ CacheUnlocked
    /\ cache.browseLoaded
    /\ inflight' = (inflight \ {c}) \cup
                   {[c EXCEPT !.kind = "loaded", !.apps = cache.browseApps,
                              !.next = cache.browseNextCursor,
                              !.err = cache.browseAppsErr]}
    /\ UNCHANGED <<browse, inits, ignored, cacheVars, tuiFixed>>

\* Update(tui.BrowseAppsLoadedMsg)
UpdateLoaded(c, nearBottom) ==
    /\ c \in inflight
    /\ c.kind = "loaded"
    /\ IF c.err # "nil"
         THEN /\ browse' = [browse EXCEPT !.loading = FALSE, !.err = c.err]
              /\ inflight' = inflight \ {c}
         ELSE EndOfUpdate([browse EXCEPT !.loading = FALSE, !.err = "nil",
                                         !.apps = c.apps, !.nextCursor = c.next],
                          inflight \ {c}, nearBottom)
    /\ UNCHANGED <<inits, ignored, cacheVars, tuiFixed>>

\* UpdatePage that does not compare the generations
UpdatePage_NoGenerationCheck(c, r, nearBottom) ==
    /\ c \in inflight
    /\ c.kind = "page"
    /\ IF r.err # "nil"
         THEN /\ browse' = [browse EXCEPT !.loadingMore = FALSE]
              /\ inflight' = inflight \ {c}
         ELSE EndOfUpdate([browse EXCEPT !.loadingMore = FALSE,
                                         !.apps = browse.apps \o r.apps,
                                         !.nextCursor = r.next],
                          inflight \ {c}, nearBottom)
    /\ UNCHANGED <<inits, ignored, cacheVars, tuiFixed>>

\* the command of fetchMoreApps returns r, and Update(BrowseAppsPageLoadedMsg)
UpdatePage(c, r, nearBottom) ==
    /\ c \in inflight
    /\ c.kind = "page"
    /\ IF c.generation # browse.fetchGeneration
         THEN /\ inflight' = inflight \ {c}
              /\ ignored' = ignored + 1
              /\ UNCHANGED browse
         ELSE /\ IF r.err # "nil"
                   THEN /\ browse' = [browse EXCEPT !.loadingMore = FALSE]
                        /\ inflight' = inflight \ {c}
                   ELSE EndOfUpdate([browse EXCEPT !.loadingMore = FALSE,
                                                   !.apps = browse.apps \o r.apps,
                                                   !.nextCursor = r.next],
                                    inflight \ {c}, nearBottom)
              /\ UNCHANGED ignored
    /\ UNCHANGED <<inits, cacheVars, tuiFixed>>

\* Update(msg) for a key or tick message that only reaches the end of Update
UpdateOther(nearBottom) ==
    /\ EndOfUpdate(browse, inflight, nearBottom)
    /\ UNCHANGED <<inits, ignored, cacheVars, tuiFixed>>

InitBrowse ==
    /\ PtyInit
    /\ input = <<>>
    /\ optDetachKey = 0
    /\ ~stdinHasFd
    /\ ~stdoutIsFile
    /\ StoreIdle
    /\ HarnessIdle
    /\ PureIdle
    /\ CallerIdle
    /\ ExtraIdle

NextBrowse ==
    \/ \E f \in 1..MaxFetches :
          \/ StartBrowseAppsPrefetch(f)
          \/ FetchConfigErr(f) \/ FetchList(f) \/ FetchLock(f) \/ FetchStore(f)
    \/ BrowseInit
    \/ \E c \in inflight : WaitForPrefetch(c)
    \/ \E c \in inflight : \E nearBottom \in BOOLEAN : UpdateLoaded(c, nearBottom)
    \/ \E c \in inflight : \E nearBottom \in BOOLEAN :
          \E r \in MorePages : UpdatePage(c, r, nearBottom)
    \/ \E nearBottom \in BOOLEAN : UpdateOther(nearBottom)

SpecBrowse == InitBrowse /\ [][NextBrowse]_vars

\* ------------------------------------------------ claims: the browse view
\* the command c of fetchMoreApps delivers its message in this step
PageDelivered(c) ==
    /\ c \in inflight
    /\ c.kind = "page"
    /\ c \notin inflight'

\* C39: a BrowseAppsPageLoadedMsg whose Generation is not the model's
\* fetchGeneration leaves apps, nextCursor and loadingMore as they are; every
\* page fetch that was started before the most recent Init carries such a
\* Generation, so its result is never appended to the list.
C39_StalePageIgnored ==
    /\ [](\A c \in inflight :
             (c.kind = "page" /\ c.startedAt < inits) =>
                 c.generation # browse.fetchGeneration)
    /\ [][\A c \in inflight :
             (PageDelivered(c) /\ (\/ c.generation # browse.fetchGeneration
                                   \/ c.startedAt < inits)) =>
                 /\ browse'.apps = browse.apps
                 /\ browse'.nextCursor = browse.nextCursor
                 /\ browse'.loadingMore = browse.loadingMore]_vars

\* the message of a page fetch of the first showing was ignored while a page
\* fetch of the second showing is under way
C39_Witness ==
    /\ ignored = 1
    /\ inits = 2
    /\ browse.fetchGeneration = 2
    /\ browse.loadingMore
    /\ Len(browse.apps) > 0
    /\ \E c \in inflight : c.kind = "page" /\ c.generation = 2

====
